---- MODULE Spec2Model ----
(***************************************************************************)
(* Room/session coordination layer of the collaborative editor.            *)
(*                                                                         *)
(* Server side: the socket.io relay of backend/server.ts (the rooms map,   *)
(* the per-connection closure variables currentRoom/currentUser and the    *)
(* socket.io room membership of every socket).  Client side: the editor    *)
(* bridge of frontend/src/App.jsx and the peer-connection table of         *)
(* frontend/src/components/VideoConference.tsx.                            *)
(*                                                                         *)
(* Every specification below runs the same handlers.  A handler that is    *)
(* left out of a specification changes none of the state that the claims   *)
(* checked under it read: codeChange writes only Room.code, and the video  *)
(* handlers write only Room.videoUsers.                                    *)
(*                                                                         *)
(* Spec         membership: join, leaveRoom, disconnect, any arguments.    *)
(* DocSpec      membership and codeChange, any arguments.                  *)
(* VideoSpec    membership and the video handlers, any arguments.          *)
(* EditSpec     the relay driven by App.jsx clients over FIFO channels.    *)
(* SignalSpec   membership and the offer/answer/ice-candidate relay.       *)
(* CompileSpec  membership and compileCode with its outstanding requests.  *)
(* PeerSpec     one VideoConference component under every order of its     *)
(*              socket events, timers and video switches.                  *)
(* RtcSpec      VideoConference components and the relay over FIFO         *)
(*              channels.                                                  *)
(* FailSpec     RtcSpec with rejected calls of getUserMedia.               *)
(* TrackSpec    one component with its microphone and camera buttons.      *)
(* NoticeSpec   membership and the typing, languageChange and toggle       *)
(*              notices.                                                   *)
(* PositionSpec the position handler of the relay and of RoomManager.      *)
(* ThrottleSpec video-position-change through throttle(), with a clock.    *)
(* ManagerSpec  the RoomManager class under any sequence of calls.         *)
(* RouterSpec   membership, join-video and the forwarding handlers.        *)
(* IndicatorSpec the typing indicator of App.jsx, with a clock.            *)
(* RecoverySpec one component whose connection fails or is disconnected.   *)
(*                                                                         *)
(* An RTCPeerConnection is kept as its remote user, whether it is closed,  *)
(* its signaling state, the connection whose description it last accepted, *)
(* its connectionState and the number of ICE restarts asked of it; the     *)
(* component keeps which connections carry the tracks of its local stream. *)
(* ICE candidates, media tracks of a remote stream and the toggle/position *)
(* listeners of the component are left out: they neither create nor remove *)
(* an entry of the peer-connection table.                                  *)
(* Time is in ms: the clock of the server never goes backwards and a timer *)
(* runs at its due time or later.                                          *)
(***************************************************************************)
EXTENDS Integers, Sequences, FiniteSets, TLC

\* Number of socket connections accepted during one run of the server.
NConns == 2

\* Number of local edits, and of joins, each App.jsx client makes in EditSpec.
MaxEdits == 1

MaxJoins == 1

\* Number of compileCode events handled in CompileSpec.
MaxCompiles == 2

\* Number of RTCPeerConnection objects one component creates.
MaxPcs == 2

\* Number of times video is switched on or off, over all components (RtcSpec).
MaxToggles == 3

\* Number of times the component of PeerSpec switches its video on or off.
MaxSwitches == 2

\* Number of video-position-change events received in ThrottleSpec, and the
\* time at which its clock stops, in ms.
MaxCalls == 3

MaxTime == 125

\* restartIce() calls counted per connection object.
MaxRestarts == 2

Conns == 1..NConns

\* The ids a VideoConference component may see as remote users: the other
\* connections, and one id more for a user it is told about.
PeerIds == 1..(NConns + 1)

\* JavaScript null (distinct from every string a client can send).
Null == "<null>"

\* Room ids and user names a client may put in an event; "" is falsy in JS.
RoomIds == {"", "r1"}
UserNames == {"", "a"}

\* The names App.jsx lets through (joinRoom requires roomId && userName).
TruthyNames == {n \in UserNames : n # ""}

TruthyRooms == {r \in RoomIds : r # ""}

\* Document texts carried by codeChange events.
Codes == {"x", "y"}

DefaultCode == "// Start Code here"

DefaultPosition == [x |-> 20, y |-> 20]

Positions == {DefaultPosition, [x |-> 5, y |-> 7]}

VARIABLES
  rooms,        \* Map<string, Room>: a function whose domain is the ids present
  currentRoom,  \* per connection: closure variable currentRoom
  currentUser,  \* per connection: closure variable currentUser
  sio,          \* per connection: the socket.io rooms the socket has joined
  connected,    \* per connection: the socket is connected
  emitted,      \* the messages emitted by the last handler, in order
  lastEv,       \* the event handled last, with the sender's membership before it
  hist,         \* per connection: room joined and not left since (history)
  lastChange,   \* per room id: text of the last codeChange processed for it
  lastStored,   \* per room id: text of the last codeChange processed while it existed
  up,           \* per connection: client -> server events in flight (FIFO)
  down,         \* per connection: server -> client events in flight (FIFO)
  cl,           \* per connection: the App.jsx component state
  sync,         \* per connection: snapshot received since the join, and every
                \* local edit was made after it (history)
  pending,      \* the compileCode handlers suspended in `await axios.post`
  compiles,     \* compileCode events handled, and codeResponse broadcasts (history)
  vc,           \* per connection: the state of the VideoConference component
  pcs,          \* per connection: the RTCPeerConnection objects it has created
  timers,       \* per connection: the setTimeout callbacks not yet run
  cstep,        \* the last step of a component: its event and what it emitted
  now,          \* Date.now() of the server process, in ms
  th,           \* per connection: the closure of throttle() and what it has run
  mgr,          \* RoomManager.rooms
  ret           \* the RoomManager call made last, with the value it returned

serverVars == <<rooms, currentRoom, currentUser, sio, connected, emitted, lastEv,
                hist, lastChange, lastStored>>
clientVars == <<up, down, cl, sync>>
jobVars == <<pending, compiles>>
rtcVars == <<vc, pcs, timers, cstep>>
throttleVars == <<now, th>>
managerVars == <<mgr, ret>>
offServer == <<clientVars, jobVars, rtcVars, throttleVars, managerVars>>
vars == <<rooms, currentRoom, currentUser, sio, connected, emitted, lastEv,
          hist, lastChange, lastStored, up, down, cl, sync,
          pending, compiles, vc, pcs, timers, cstep, now, th, mgr, ret>>

(***************************************************************************)
(* JavaScript helpers                                                      *)
(***************************************************************************)

\* Truthiness of a `string | null` value: null and "" are falsy.
Truthy(s) == s # Null /\ s # ""

\* Map<string, User> in insertion order: a sequence of [id, name] entries.
UsersHas(m, k) == \E i \in 1..Len(m) : m[i].id = k

UsersGet(m, k) == m[CHOOSE i \in 1..Len(m) : m[i].id = k]

UsersSet(m, k, n) ==
  IF UsersHas(m, k)
    THEN [i \in 1..Len(m) |-> IF m[i].id = k THEN [id |-> k, name |-> n] ELSE m[i]]
    ELSE Append(m, [id |-> k, name |-> n])

UsersDelete(m, k) == SelectSeq(m, LAMBDA e : e.id # k)

UserIds(m) == {m[i].id : i \in 1..Len(m)}

\* Map<string, {userId, userName, position}> in insertion order.
VideoHas(m, k) == \E i \in 1..Len(m) : m[i].userId = k

VideoSet(m, k, n, p) ==
  IF VideoHas(m, k)
    THEN [i \in 1..Len(m) |->
            IF m[i].userId = k THEN [userId |-> k, userName |-> n, position |-> p]
                               ELSE m[i]]
    ELSE Append(m, [userId |-> k, userName |-> n, position |-> p])

VideoDelete(m, k) == SelectSeq(m, LAMBDA e : e.userId # k)

VideoIds(m) == {m[i].userId : i \in 1..Len(m)}

\* The room object created by join; `output` is absent until a run succeeds.
NewRoom == [users |-> <<>>, code |-> DefaultCode, videoUsers |-> <<>>, output |-> Null]

(***************************************************************************)
(* socket.io                                                               *)
(***************************************************************************)

\* io.to(name): every connected socket that is in socket.io room `name`.
\* (Each socket is also in the room named by its own id; the room ids of
\* RoomIds are not socket ids.)
IoTo(s, conn, name) == {d \in Conns : conn[d] /\ name \in s[d]}

SocketToAll(s, conn, c, name) == IoTo(s, conn, name)

\* socket.to(name): the same, without the sending socket.
SocketTo(s, conn, c, name) == IoTo(s, conn, name) \ {c}

\* One emitted message; the payload fields that an event does not carry are empty.
Msg(ev, target, to, users, text, uid, video) ==
  [ev |-> ev, target |-> target, to |-> to, users |-> users, text |-> text,
   uid |-> uid, video |-> video]

Ev(ev, c, roomId, text) ==
  [ev |-> ev, c |-> c, roomId |-> roomId, text |-> text, from |-> hist[c]]

(***************************************************************************)
(* Handlers of the relay                                                   *)
(***************************************************************************)

\* The guard `currentRoom && currentUser` of join, leaveRoom and disconnect.
IsJoined(c) == Truthy(currentRoom[c]) /\ Truthy(currentUser[c])

\* socket.on('join')
OnJoin(c, roomId, userName) ==
  LET leaving == IsJoined(c)
      old     == currentRoom[c]
      sio1    == IF leaving THEN [sio EXCEPT ![c] = @ \ {old}] ELSE sio
      found   == leaving /\ old \in DOMAIN rooms
      rooms1  == IF found THEN [rooms EXCEPT ![old].users = UsersDelete(@, c)]
                          ELSE rooms
      out1    == IF found
                   THEN <<Msg("userJoined", old, IoTo(sio1, connected, old),
                              rooms1[old].users, "", 0, <<>>)>>
                   ELSE <<>>
      sio2    == [sio1 EXCEPT ![c] = @ \cup {roomId}]
      rooms2  == [r \in DOMAIN rooms1 \cup {roomId} |->
                    IF r \in DOMAIN rooms1 THEN rooms1[r] ELSE NewRoom]
      rooms3  == [rooms2 EXCEPT ![roomId].users = UsersSet(@, c, userName)]
  IN  /\ connected[c]
      /\ currentRoom' = [currentRoom EXCEPT ![c] = roomId]
      /\ currentUser' = [currentUser EXCEPT ![c] = userName]
      /\ sio' = sio2
      /\ rooms' = rooms3
      /\ emitted' = out1 \o
           << Msg("codeUpdate", "socket", {c}, <<>>, rooms3[roomId].code, 0, <<>>),
              Msg("userIdAssigned", "socket", {c}, <<>>, "", c, <<>>),
              Msg("userJoined", roomId, IoTo(sio2, connected, roomId),
                  rooms3[roomId].users, "", 0, <<>>) >>
      /\ lastEv' = Ev("join", c, roomId, "")
      /\ hist' = [hist EXCEPT ![c] = roomId]
      /\ UNCHANGED <<connected, lastChange, lastStored>>

NoStoreCode(rs, roomId, code) == rs

\* rooms.get(roomId)!.code = code, when the room is present.
StoreCode(rs, roomId, code) ==
  IF roomId \in DOMAIN rs THEN [rs EXCEPT ![roomId].code = code] ELSE rs

CodeChangeToAll(c, roomId) == IoTo(sio, connected, roomId)

\* socket.to(roomId) of the codeChange handler.
CodeChangeTargets(c, roomId) == SocketTo(sio, connected, c, roomId)

\* socket.on('codeChange')
OnCodeChange(c, roomId, code) ==
  /\ connected[c]
  /\ rooms' = StoreCode(rooms, roomId, code)
  /\ emitted' = << Msg("codeUpdate", roomId, CodeChangeTargets(c, roomId),
                       <<>>, code, 0, <<>>) >>
  /\ lastEv' = Ev("codeChange", c, roomId, code)
  /\ lastChange' = [lastChange EXCEPT ![roomId] = code]
  /\ lastStored' = IF roomId \in DOMAIN rooms
                     THEN [lastStored EXCEPT ![roomId] = code] ELSE lastStored
  /\ UNCHANGED <<currentRoom, currentUser, sio, connected, hist>>

\* socket.on("typing")
OnTyping(c, roomId, userName) ==
  /\ connected[c]
  /\ emitted' = << Msg("userTyping", roomId, IoTo(sio, connected, roomId),
                       <<>>, userName, 0, <<>>) >>
  /\ lastEv' = Ev("typing", c, roomId, userName)
  /\ UNCHANGED <<rooms, currentRoom, currentUser, sio, connected, hist,
                 lastChange, lastStored>>

\* socket.on("languageChange")
OnLanguageChange(c, roomId, language) ==
  /\ connected[c]
  /\ emitted' = << Msg("languageUpdate", roomId, IoTo(sio, connected, roomId),
                       <<>>, language, 0, <<>>) >>
  /\ lastEv' = Ev("languageChange", c, roomId, language)
  /\ UNCHANGED <<rooms, currentRoom, currentUser, sio, connected, hist,
                 lastChange, lastStored>>

\* A relayed video-toggle or audio-toggle: userId is uid, the flag is enabled.
ToggleMsg(ev, roomId, to, c, enabled) ==
  [ev |-> ev, target |-> roomId, to |-> to, users |-> <<>>, text |-> "",
   uid |-> c, video |-> <<>>, enabled |-> enabled]

\* socket.on("video-toggle")
OnVideoToggle(c, roomId, isVideoEnabled) ==
  /\ connected[c]
  /\ emitted' = << ToggleMsg("video-toggle", roomId, IoTo(sio, connected, roomId),
                             c, isVideoEnabled) >>
  /\ lastEv' = Ev("video-toggle", c, roomId, isVideoEnabled)
  /\ UNCHANGED <<rooms, currentRoom, currentUser, sio, connected, hist,
                 lastChange, lastStored>>

AudioToggleToAll(c, roomId) == IoTo(sio, connected, roomId)

\* socket.to(roomId) of the audio-toggle handler.
AudioToggleTargets(c, roomId) == SocketTo(sio, connected, c, roomId)

\* socket.on("audio-toggle")
OnAudioToggle(c, roomId, isAudioEnabled) ==
  /\ connected[c]
  /\ emitted' = << ToggleMsg("audio-toggle", roomId, AudioToggleTargets(c, roomId),
                             c, isAudioEnabled) >>
  /\ lastEv' = Ev("audio-toggle", c, roomId, isAudioEnabled)
  /\ UNCHANGED <<rooms, currentRoom, currentUser, sio, connected, hist,
                 lastChange, lastStored>>

KeepClosure(cur, c) == cur

\* currentRoom = null; currentUser = null; at the end of leaveRoom.
ResetClosure(cur, c) == [cur EXCEPT ![c] = Null]

\* socket.on("leaveRoom")
OnLeaveRoom(c) ==
  LET old   == currentRoom[c]
      found == IsJoined(c) /\ old \in DOMAIN rooms
      rooms1 == IF found
                  THEN [rooms EXCEPT ![old].users = UsersDelete(@, c),
                                     ![old].videoUsers = VideoDelete(@, c)]
                  ELSE rooms
  IN  /\ connected[c]
      /\ rooms' = rooms1
      /\ emitted' = IF found
           THEN << Msg("userJoined", old, IoTo(sio, connected, old),
                       rooms1[old].users, "", 0, <<>>),
                   Msg("user-left-video", old, IoTo(sio, connected, old),
                       <<>>, "", c, <<>>) >>
           ELSE <<>>
      /\ sio' = IF IsJoined(c) THEN [sio EXCEPT ![c] = @ \ {old}] ELSE sio
      /\ currentRoom' = IF IsJoined(c) THEN ResetClosure(currentRoom, c) ELSE currentRoom
      /\ currentUser' = IF IsJoined(c) THEN ResetClosure(currentUser, c) ELSE currentUser
      /\ lastEv' = Ev("leaveRoom", c, Null, "")
      /\ hist' = [hist EXCEPT ![c] = Null]
      /\ UNCHANGED <<connected, lastChange, lastStored>>

\* socket.on("join-video")
OnJoinVideo(c, roomId) ==
  LET ok     == roomId \in DOMAIN rooms /\ UsersHas(rooms[roomId].users, c)
      name   == UsersGet(rooms[roomId].users, c).name
      rooms1 == IF ok
                  THEN [rooms EXCEPT ![roomId].videoUsers =
                          VideoSet(@, c, name, DefaultPosition)]
                  ELSE rooms
      existing == SelectSeq(rooms1[roomId].videoUsers, LAMBDA v : v.userId # c)
  IN  /\ connected[c]
      /\ rooms' = rooms1
      /\ emitted' = IF ok
           THEN << Msg("user-joined-video", roomId, SocketTo(sio, connected, c, roomId),
                       <<>>, "", c,
                       <<[userId |-> c, userName |-> name, position |-> DefaultPosition]>>) >>
                \o (IF Len(existing) > 0
                      THEN << Msg("existing-video-users", "socket", {c},
                                  <<>>, "", 0, existing) >>
                      ELSE <<>>)
           ELSE <<>>
      /\ lastEv' = Ev("join-video", c, roomId, "")
      /\ UNCHANGED <<currentRoom, currentUser, sio, connected, hist, lastChange, lastStored>>

\* socket.on("leave-video")
OnLeaveVideo(c, roomId) ==
  LET ok == roomId \in DOMAIN rooms
  IN  /\ connected[c]
      /\ rooms' = IF ok THEN [rooms EXCEPT ![roomId].videoUsers = VideoDelete(@, c)]
                        ELSE rooms
      /\ emitted' = IF ok
           THEN << Msg("user-left-video", roomId, SocketTo(sio, connected, c, roomId),
                       <<>>, "", c, <<>>) >>
           ELSE <<>>
      /\ lastEv' = Ev("leave-video", c, roomId, "")
      /\ UNCHANGED <<currentRoom, currentUser, sio, connected, hist, lastChange, lastStored>>

PositionChangeUnchecked(c, roomId, userId, position) ==
  /\ rooms' = IF roomId \in DOMAIN rooms
                THEN [rooms EXCEPT ![roomId].videoUsers =
                        VideoSet(@, userId, "", position)]
                ELSE rooms
  /\ emitted' = << Msg("video-position-update", roomId, IoTo(sio, connected, roomId),
                       <<>>, "", userId,
                       <<[userId |-> userId, userName |-> "", position |-> position]>>) >>
  /\ lastEv' = [ev |-> "video-position-change", c |-> c, roomId |-> roomId,
                text |-> "", from |-> hist[c], uid |-> userId, position |-> position]
  /\ UNCHANGED <<currentRoom, currentUser, sio, connected, hist, lastChange, lastStored>>

\* The function wrapped by throttle(): the body of throttledPositionChange.  It
\* runs from the event handler or from the timer, whether or not the socket of
\* connection c is still connected.
PositionChange(c, roomId, userId, position) ==
  LET ok == roomId \in DOMAIN rooms /\ VideoHas(rooms[roomId].videoUsers, userId)
  IN  /\ rooms' = IF ok
           THEN [rooms EXCEPT ![roomId].videoUsers =
                   [i \in 1..Len(@) |->
                      IF @[i].userId = userId THEN [@[i] EXCEPT !.position = position]
                                              ELSE @[i]]]
           ELSE rooms
      /\ emitted' = IF ok
           THEN << Msg("video-position-update", roomId, IoTo(sio, connected, roomId),
                       <<>>, "", userId,
                       <<[userId |-> userId, userName |-> "", position |-> position]>>) >>
           ELSE <<>>
      /\ lastEv' = [ev |-> "video-position-change", c |-> c, roomId |-> roomId,
                    text |-> "", from |-> hist[c], uid |-> userId, position |-> position]
      /\ UNCHANGED <<currentRoom, currentUser, sio, connected, hist, lastChange, lastStored>>

\* One execution of that function for a video-position-change event of
\* connection c.
OnVideoPositionChange(c, roomId, userId, position) ==
  /\ connected[c]
  /\ PositionChange(c, roomId, userId, position)

\* socket.on("disconnect"): socket.io has removed the socket from all its rooms
\* before the handler runs.
OnDisconnect(c) ==
  LET old   == currentRoom[c]
      found == IsJoined(c) /\ old \in DOMAIN rooms
      sio1  == [sio EXCEPT ![c] = {}]
      conn1 == [connected EXCEPT ![c] = FALSE]
      rooms1 == IF found
                  THEN [rooms EXCEPT ![old].users = UsersDelete(@, c),
                                     ![old].videoUsers = VideoDelete(@, c)]
                  ELSE rooms
  IN  /\ connected[c]
      /\ connected' = conn1
      /\ sio' = sio1
      /\ rooms' = rooms1
      /\ emitted' = IF found
           THEN << Msg("userJoined", old, IoTo(sio1, conn1, old),
                       rooms1[old].users, "", 0, <<>>),
                   Msg("user-left-video", old, IoTo(sio1, conn1, old),
                       <<>>, "", c, <<>>) >>
           ELSE <<>>
      /\ lastEv' = Ev("disconnect", c, Null, "")
      /\ hist' = [hist EXCEPT ![c] = Null]
      /\ UNCHANGED <<currentRoom, currentUser, lastChange, lastStored>>

CheckVideoUserRegisters(c, roomId, userId) ==
  LET ok == roomId \in DOMAIN rooms /\ UsersHas(rooms[roomId].users, userId)
  IN  /\ connected[c]
      /\ rooms' = IF ok THEN [rooms EXCEPT ![roomId].videoUsers =
                               VideoSet(@, userId, "", DefaultPosition)]
                        ELSE rooms
      /\ emitted' = IF ok
           THEN << Msg("user-joined-video", "socket", {c}, <<>>, "", userId,
                       SelectSeq(rooms'[roomId].videoUsers,
                                 LAMBDA v : v.userId = userId)) >>
           ELSE <<>>
      /\ lastEv' = Ev("check-video-user", c, roomId, "")
      /\ UNCHANGED <<currentRoom, currentUser, sio, connected, hist,
                     lastChange, lastStored>>

\* socket.on("check-video-user")
OnCheckVideoUser(c, roomId, userId) ==
  LET ok == roomId \in DOMAIN rooms /\ VideoHas(rooms[roomId].videoUsers, userId)
  IN  /\ connected[c]
      /\ emitted' = IF ok
           THEN << Msg("user-joined-video", "socket", {c}, <<>>, "", userId,
                       SelectSeq(rooms[roomId].videoUsers,
                                 LAMBDA v : v.userId = userId)) >>
           ELSE <<>>
      /\ lastEv' = Ev("check-video-user", c, roomId, "")
      /\ UNCHANGED <<rooms, currentRoom, currentUser, sio, connected, hist,
                     lastChange, lastStored>>

(***************************************************************************)
(* Signaling                                                               *)
(***************************************************************************)

\* socket.id of connection c, as the string a client puts in targetUserId.
SocketId(c) == "s" \o ToString(c)

SignalEchoTargets(c, targetUserId) ==
  {d \in Conns : connected[d] /\ (SocketId(d) = targetUserId \/ targetUserId \in sio[d])}
    \cup {c}

\* io.to(targetUserId): every connected socket in the socket.io room of that
\* name, which is the socket with that id and every socket that joined a room
\* of that name.
SignalTargets(c, targetUserId) ==
  {d \in Conns : connected[d] /\ (SocketId(d) = targetUserId \/ targetUserId \in sio[d])}

\* A relayed offer, answer or ice-candidate: fromUserId is uid, fromUserName is
\* text, and payload is the description or candidate.
SigMsg(ev, c, targetUserId, fromUserName, payload) ==
  [ev |-> ev, target |-> targetUserId, to |-> SignalTargets(c, targetUserId),
   users |-> <<>>, text |-> fromUserName, uid |-> c, video |-> <<>>,
   payload |-> payload]

\* user?.name || "Unknown" of the offer handler.
FromUserName(c, roomId) ==
  IF /\ roomId \in DOMAIN rooms
     /\ UsersHas(rooms[roomId].users, c)
     /\ Truthy(UsersGet(rooms[roomId].users, c).name)
    THEN UsersGet(rooms[roomId].users, c).name
    ELSE "Unknown"

\* socket.on("offer"), socket.on("answer") and socket.on("ice-candidate"); only
\* the offer carries fromUserName.
OnSignal(ev, c, roomId, targetUserId, payload) ==
  /\ connected[c]
  /\ emitted' = << SigMsg(ev, c, targetUserId,
                          IF ev = "offer" THEN FromUserName(c, roomId) ELSE "",
                          payload) >>
  /\ lastEv' = Ev(ev, c, roomId, targetUserId)
  /\ UNCHANGED <<rooms, currentRoom, currentUser, sio, connected, hist,
                 lastChange, lastStored>>

(***************************************************************************)
(* Code execution                                                          *)
(***************************************************************************)

RemoveAt(q, i) == [j \in 1..(Len(q) - 1) |-> IF j < i THEN q[j] ELSE q[j + 1]]

\* socket.on("compileCode") up to `await axios.post(...)`: nothing happens
\* unless the registry has the room.
OnCompileCode(c, roomId) ==
  /\ connected[c]
  /\ pending' = IF roomId \in DOMAIN rooms
                  THEN Append(pending, [c |-> c, roomId |-> roomId])
                  ELSE pending
  /\ compiles' = [compiles EXCEPT !.req = @ + 1]
  /\ emitted' = <<>>
  /\ lastEv' = Ev("compileCode", c, roomId, "")
  /\ UNCHANGED <<rooms, currentRoom, currentUser, sio, connected, hist,
                 lastChange, lastStored>>

\* The request resolved: room.output = response.data.run.output, then the
\* response goes to io.to(roomId).
OnCompileDone(i, output) ==
  LET job == pending[i]
  IN  /\ rooms' = [rooms EXCEPT ![job.roomId].output = output]
      /\ emitted' = << Msg("codeResponse", job.roomId,
                           IoTo(sio, connected, job.roomId), <<>>, output, 0, <<>>) >>
      /\ pending' = RemoveAt(pending, i)
      /\ compiles' = [compiles EXCEPT !.resp = @ + 1]
      /\ lastEv' = Ev("compileDone", job.c, job.roomId, output)
      /\ UNCHANGED <<currentRoom, currentUser, sio, connected, hist,
                     lastChange, lastStored>>

ErrorOutput == "Error executing code"

CompileFailStoresOutput(rs, roomId) == [rs EXCEPT ![roomId].output = ErrorOutput]

\* The catch block assigns nothing to the room.
CompileFailRooms(rs, roomId) == rs

\* The request was rejected (or the response had no run.output): the catch
\* block sends the synthetic result to io.to(roomId).
OnCompileFail(i) ==
  LET job == pending[i]
  IN  /\ rooms' = CompileFailRooms(rooms, job.roomId)
      /\ emitted' = << Msg("codeResponse", job.roomId,
                           IoTo(sio, connected, job.roomId), <<>>, ErrorOutput, 0, <<>>) >>
      /\ pending' = RemoveAt(pending, i)
      /\ compiles' = [compiles EXCEPT !.resp = @ + 1]
      /\ lastEv' = Ev("compileError", job.c, job.roomId, ErrorOutput)
      /\ UNCHANGED <<currentRoom, currentUser, sio, connected, hist,
                     lastChange, lastStored>>

(***************************************************************************)
(* throttle(func, wait)                                                    *)
(*                                                                         *)
(* The closure of one throttled function: previous, timeout (the handle of *)
(* the timer set last and not cleared or run, a member of timers) and the  *)
(* timers of the event loop that were set by it.  calls counts its         *)
(* invocations and runs the executions of func (up to two); sent and ran   *)
(* are the arguments of the last invocation and of the last execution, and *)
(* gap is the time between the last two executions (history).              *)
(***************************************************************************)

\* The wait of throttledPositionChange, in ms.
Wait == 50

NoArgs == [roomId |-> "", userId |-> 0, position |-> DefaultPosition]

NoTimeout == [due |-> 0, args |-> NoArgs]

NewThrottle == [previous |-> 0, timeout |-> NoTimeout, timers |-> {},
                calls |-> 0, sent |-> NoArgs, runs |-> 0, ran |-> NoArgs, gap |-> 0]

\* previous = now; func(...args) at time t, the execution before it having set
\* previous.
Executed(k, t, args) ==
  [k EXCEPT !.runs = IF @ < 2 THEN @ + 1 ELSE @, !.ran = args,
            !.gap = IF k.runs > 0 THEN t - k.previous ELSE 0, !.previous = t]

KeepTimeout(k) == [k EXCEPT !.timeout = NoTimeout]

\* if (timeout !== null) { clearTimeout(timeout); timeout = null; }
ClearTimeout(k) == [k EXCEPT !.timers = @ \ {k.timeout}, !.timeout = NoTimeout]

\* The function returned by throttle, called with args at time t: run says
\* whether func is executed by this call, k is the closure afterwards.
Throttled(k, t, args) ==
  LET remaining == Wait - (t - k.previous)
      k1 == [k EXCEPT !.calls = @ + 1, !.sent = args]
      tm == [due |-> t + remaining, args |-> args]
  IN  IF remaining <= 0 \/ remaining > Wait
        THEN [run |-> TRUE,
              k |-> Executed(ClearTimeout(k1), t, args)]
      ELSE IF k.timeout = NoTimeout
        THEN [run |-> FALSE, k |-> [k1 EXCEPT !.timeout = tm, !.timers = @ \cup {tm}]]
        ELSE [run |-> FALSE, k |-> k1]

\* The callback of setTimeout for timer tm, run at time t.
Trailing(k, t, tm) ==
  Executed([k EXCEPT !.timeout = NoTimeout, !.timers = @ \ {tm}], t, tm.args)

(***************************************************************************)
(* RoomManager                                                             *)
(*                                                                         *)
(* A method maps the rooms map rs to the record [rooms, value]: the map    *)
(* after the call and the value returned (Null for void).  The maps of a   *)
(* room are kept as the relay keeps them, in insertion order.              *)
(***************************************************************************)

\* The room object created by getRoom.
ManagerNewRoom == [users |-> <<>>, code |-> "// Start code here", videoUsers |-> <<>>]

Returns(rs, value) == [rooms |-> rs, value |-> value]

\* this.rooms with roomId set to room.
WithRoom(rs, roomId, room) ==
  [r \in DOMAIN rs \cup {roomId} |-> IF r = roomId THEN room ELSE rs[r]]

\* this.rooms.delete(roomId)
WithoutRoom(rs, roomId) == [r \in DOMAIN rs \ {roomId} |-> rs[r]]

GetRoom(rs, roomId) ==
  IF roomId \in DOMAIN rs THEN Returns(rs, rs[roomId])
                          ELSE Returns(WithRoom(rs, roomId, ManagerNewRoom), ManagerNewRoom)

AddUser(rs, roomId, user) ==
  LET g == GetRoom(rs, roomId)
  IN  Returns([g.rooms EXCEPT ![roomId].users = UsersSet(@, user.id, user.name)], Null)

RemoveUserKeepsRoom(rs, roomId, userId) ==
  IF roomId \notin DOMAIN rs
    THEN Returns(rs, FALSE)
    ELSE Returns([rs EXCEPT ![roomId].users = UsersDelete(@, userId),
                            ![roomId].videoUsers = VideoDelete(@, userId)],
                 UsersDelete(rs[roomId].users, userId) = <<>>)

RemoveUser(rs, roomId, userId) ==
  IF roomId \notin DOMAIN rs
    THEN Returns(rs, FALSE)
    ELSE LET room == [rs[roomId] EXCEPT !.users = UsersDelete(@, userId),
                                        !.videoUsers = VideoDelete(@, userId)]
         IN  IF Len(room.users) = 0
               THEN Returns(WithoutRoom(rs, roomId), TRUE)
               ELSE Returns(WithRoom(rs, roomId, room), FALSE)

UpdateCode(rs, roomId, code) ==
  LET g == GetRoom(rs, roomId)
  IN  Returns([g.rooms EXCEPT ![roomId].code = code], Null)

AddVideoUser(rs, roomId, userId, userName, position) ==
  LET g == GetRoom(rs, roomId)
  IN  Returns([g.rooms EXCEPT ![roomId].videoUsers =
                  VideoSet(@, userId, userName, position)], Null)

RemoveVideoUser(rs, roomId, userId) ==
  IF roomId \in DOMAIN rs
    THEN Returns([rs EXCEPT ![roomId].videoUsers = VideoDelete(@, userId)], Null)
    ELSE Returns(rs, Null)

\* videoUser.position = position
SetPosition(m, userId, position) ==
  [i \in 1..Len(m) |-> IF m[i].userId = userId THEN [m[i] EXCEPT !.position = position]
                                               ELSE m[i]]

UpdateVideoPosition(rs, roomId, userId, position) ==
  IF roomId \notin DOMAIN rs THEN Returns(rs, FALSE)
  ELSE IF ~VideoHas(rs[roomId].videoUsers, userId) THEN Returns(rs, FALSE)
  ELSE Returns([rs EXCEPT ![roomId].videoUsers = SetPosition(@, userId, position)], TRUE)

(***************************************************************************)
(* VideoConference component (client)                                      *)
(*                                                                         *)
(* A client is the record k: me (currentUserId), roomId (the prop), v (the *)
(* component state), p (the RTCPeerConnection objects created so far, an   *)
(* entry of the peer table being an index into p), t (pending timers) and  *)
(* out (the events emitted by the step).  A handler maps k to the next k.  *)
(* The description exchanged by a pair of objects is named by the index of *)
(* the object that made it; trickled candidates change none of this state. *)
(***************************************************************************)

Client(c) == [me |-> c, roomId |-> cl[c].roomId, v |-> vc[c], p |-> pcs[c],
              t |-> timers[c], out |-> <<>>]

\* An event the component emits; payload is the description it carries.
RtcMsg(ev, roomId, text, payload) ==
  [ev |-> ev, roomId |-> roomId, text |-> text, payload |-> payload]

NoSdp == [obj |-> 0, re |-> 0]

Timer(kind, obj, remote, re, users) ==
  [kind |-> kind, obj |-> obj, remote |-> remote, re |-> re, users |-> users]

\* new RTCPeerConnection(iceServers): cs is its connectionState and ice the
\* number of restartIce() calls made on it.
NewPc(u) == [remote |-> u, closed |-> FALSE, st |-> "new", link |-> 0,
             cs |-> "new", ice |-> 0]

\* ensureTracksAreAdded: the senders of object i carry the tracks of the stream
\* in localStreamRef (added, or put in the place of other tracks).
EnsureTracksAreAdded(k, i) ==
  IF k.v.stream = "none" THEN k ELSE [k EXCEPT !.v.senders = @ \cup {i}]

\* createPeerConnection: the new object gets the local tracks if there is a
\* stream, and replaces the table entry of userId.
CreatePeerConnection(k, userId) ==
  LET k1 == [k EXCEPT !.p = Append(@, NewPc(userId)),
                      !.v.peers[userId] = Len(k.p) + 1]
  IN  EnsureTracksAreAdded(k1, Len(k.p) + 1)

KeepExistingPeer(k, userId) == k

\* existingPeer.peerConnection.close(); peerConnectionsRef.current.delete(id)
CloseExistingPeer(k, userId) ==
  IF k.v.peers[userId] = 0 THEN k
  ELSE [k EXCEPT !.p[k.v.peers[userId]].closed = TRUE, !.v.peers[userId] = 0]

\* peerConnectionsRef.current.forEach(peer => peer.peerConnection.close())
CloseAllPeers(k) ==
  [k EXCEPT !.p = [i \in 1..Len(k.p) |->
                     IF \E u \in PeerIds : k.v.peers[u] = i
                       THEN [k.p[i] EXCEPT !.closed = TRUE] ELSE k.p[i]]]

\* handleUserJoinedVideo
HandleUserJoinedVideo(k, userId) ==
  IF userId = k.me THEN k
  ELSE LET k1 == [k EXCEPT !.v.remoteVideoStates = @ \cup {userId},
                           !.v.remoteAudioStates = @ \cup {userId},
                           !.v.videoPositions = @ \cup {userId},
                           !.v.remoteStreams = @ \ {userId}]
           k2 == CloseExistingPeer(k1, userId)
           k3 == CreatePeerConnection(k2, userId)
       IN  IF k.v.stream = "none" THEN k2
           ELSE [k3 EXCEPT !.t = @ \cup
                   {Timer("offer", k3.v.peers[userId], userId, 0, {})}]

ExistingVideoUserRelinks(k, userId) ==
  IF userId = k.me \/ k.v.stream = "none" THEN KeepExistingPeer(k, userId)
  ELSE LET k2 == CreatePeerConnection(k, userId)
       IN  [k2 EXCEPT !.t = @ \cup {Timer("offer", k2.v.peers[userId], userId, 0, {})}]

\* One round of the forEach of handleExistingVideoUsers.
ExistingVideoUser(k, userId) ==
  IF userId = k.me THEN k
  ELSE LET k1 == [k EXCEPT !.v.remoteVideoStates = @ \cup {userId},
                           !.v.remoteAudioStates = @ \cup {userId},
                           !.v.videoPositions = @ \cup {userId}]
           k2 == CreatePeerConnection(k1, userId)
       IN  IF k.v.stream # "none" /\ k.v.peers[userId] = 0
             THEN [k2 EXCEPT !.t = @ \cup
                     {Timer("offer", k2.v.peers[userId], userId, 0, {})}]
             ELSE k1

RECURSIVE HandleExistingVideoUsers(_, _)
\* handleExistingVideoUsers, for the user ids of the list in order.
HandleExistingVideoUsers(k, ids) ==
  IF ids = <<>> THEN k
  ELSE HandleExistingVideoUsers(ExistingVideoUser(k, Head(ids)), Tail(ids))

HandleOfferInPlace(k, fromUserId, offer) ==
  LET k2 == IF k.v.peers[fromUserId] = 0 THEN CreatePeerConnection(k, fromUserId) ELSE k
  IN  [k2 EXCEPT !.t = @ \cup
         {Timer("answer", k2.v.peers[fromUserId], fromUserId, offer.obj, {})}]

\* handleOffer: both branches close what the table holds for the sender, make
\* a new object and set the timer that answers.
HandleOffer(k, fromUserId, offer) ==
  LET k1 == CloseExistingPeer(k, fromUserId)
      k2 == CreatePeerConnection(k1, fromUserId)
  IN  [k2 EXCEPT !.t = @ \cup
         {Timer("answer", k2.v.peers[fromUserId], fromUserId, offer.obj, {})}]

\* handleAnswer: setRemoteDescription(answer) is accepted by an object that
\* has a local offer, and rejected (caught) in any other state.
HandleAnswer(k, fromUserId, answer) ==
  LET i == k.v.peers[fromUserId]
  IN  IF i # 0 /\ ~k.p[i].closed /\ k.p[i].st = "offered"
        THEN [k EXCEPT !.p[i].st = "stable",
                       !.p[i].link = IF answer.re = i THEN answer.obj ELSE 0,
                       !.v.remoteStreams = @ \cup {fromUserId}]
        ELSE k

ForgetEveryRemoteStream(k, userId) ==
  [CloseExistingPeer(k, userId) EXCEPT
     !.v.remoteStreams = {},
     !.v.remoteVideoStates = @ \ {userId},
     !.v.remoteAudioStates = @ \ {userId},
     !.v.videoPositions = @ \ {userId}]

\* handleUserLeftVideo
HandleUserLeftVideo(k, userId) ==
  LET k1 == CloseExistingPeer(k, userId)
  IN  [k1 EXCEPT !.v.remoteStreams = @ \ {userId},
                 !.v.remoteVideoStates = @ \ {userId},
                 !.v.remoteAudioStates = @ \ {userId},
                 !.v.videoPositions = @ \ {userId}]

\* socket.emit('check-video-user', ...) for each user of a set, in id order.
CheckVideoUsers(k, ids) ==
  LET n == Cardinality(ids)
      nth(i) == CHOOSE u \in ids : Cardinality({w \in ids : w < u}) = i - 1
  IN  [i \in 1..n |-> RtcMsg("check-video-user", k.roomId, nth(i), NoSdp)]

\* The effect on [users.length, isVideoEnabled]: asks about every other user
\* that has no entry in the peer table.
NewUsersEffect(k) ==
  IF k.v.videoOn /\ k.v.stream # "none"
    THEN [k EXCEPT !.out = @ \o CheckVideoUsers(k,
            {u \in k.v.users : u # k.me /\ k.v.peers[u] = 0})]
    ELSE k

\* The listener of userJoined stores the list; the component gets it as the
\* prop `users`.
UsersChanged(k, ids) ==
  LET k1 == [k EXCEPT !.v.users = ids]
  IN  IF Cardinality(ids) # Cardinality(k.v.users) THEN NewUsersEffect(k1) ELSE k1

\* The cleanup function of the video effect, run before the effect runs again.
EffectCleanup(k) ==
  CloseAllPeers([k EXCEPT !.v.stream = IF @ = "live" THEN "stopped" ELSE @])

\* isVideoEnabled became true: cleanup, then the `if` branch up to the call of
\* getUserMedia, then the users effect.
VideoOn(k) ==
  LET k1 == EffectCleanup(k)
      k2 == [k1 EXCEPT !.v.videoOn = TRUE, !.v.toggles = @ + 1, !.v.failed = FALSE,
                       !.v.peers = [u \in PeerIds |-> 0],
                       !.v.remoteStreams = {},
                       !.v.media = Append(@, k.v.users \ {k.me})]
  IN  NewUsersEffect(k2)

PartialVideoOff(k) ==
  [k EXCEPT !.v.videoOn = FALSE, !.v.toggles = @ + 1, !.v.stream = "none",
            !.v.failed = FALSE,
            !.out = @ \o <<RtcMsg("leave-video", k.roomId, "", NoSdp)>>]

\* isVideoEnabled became false: cleanup, then the `else` branch.
VideoOff(k) ==
  LET k1 == EffectCleanup(k)
  IN  [k1 EXCEPT !.v.videoOn = FALSE, !.v.toggles = @ + 1, !.v.failed = FALSE,
                 !.v.stream = "none",
                 !.v.peers = [u \in PeerIds |-> 0],
                 !.v.remoteStreams = {}, !.v.remoteVideoStates = {},
                 !.v.remoteAudioStates = {}, !.v.videoPositions = {},
                 !.out = @ \o <<RtcMsg("leave-video", k.roomId, "", NoSdp)>>]

\* getUserMedia resolved: the `then` of initializeMedia(); the timer asks about
\* the users the effect saw when it ran.  The tracks of a new stream are enabled,
\* and no connection object carries them.
MediaReady(k) ==
  [k EXCEPT !.v.media = Tail(@), !.v.stream = "live", !.v.senders = {},
            !.v.audioTrack = TRUE, !.v.videoTrack = TRUE,
            !.out = @ \o <<RtcMsg("join-video", k.roomId, "", NoSdp)>>,
            !.t = @ \cup {Timer("check", 0, 0, 0, Head(k.v.media))}]

\* getUserMedia was rejected: initializeMedia returns null.  failed records that
\* the call was the one made when video was last switched on (history).
MediaFailed(k) ==
  [k EXCEPT !.v.media = Tail(@), !.v.failed = (Len(k.v.media) = 1)]

\* The audio-toggle or video-toggle event the component emits.
ToggleNotice(ev, roomId, enabled) ==
  [ev |-> ev, roomId |-> roomId, text |-> "", payload |-> NoSdp, enabled |-> enabled]

\* toggleAudio
ToggleAudio(k) ==
  IF k.v.stream = "none" THEN k
  ELSE [k EXCEPT !.v.audioTrack = ~@,
                 !.out = @ \o <<ToggleNotice("audio-toggle", k.roomId, ~k.v.audioTrack)>>]

ToggleLocalVideoRejoins(k) ==
  IF k.v.stream = "none" THEN k
  ELSE LET k1 == CloseAllPeers(k)
       IN  [k1 EXCEPT !.v.videoTrack = ~@,
                      !.v.peers = [u \in PeerIds |-> 0],
                      !.out = @ \o <<RtcMsg(IF k.v.videoTrack THEN "leave-video"
                                                              ELSE "join-video",
                                            k.roomId, "", NoSdp)>>]

\* toggleLocalVideo
ToggleLocalVideo(k) ==
  IF k.v.stream = "none" THEN k
  ELSE [k EXCEPT !.v.videoTrack = ~@,
                 !.out = @ \o <<ToggleNotice("video-toggle", k.roomId, ~k.v.videoTrack)>>]

\* peerConnection.restartIce()
RestartIce(k, i) ==
  [k EXCEPT !.p[i].ice = IF @ < MaxRestarts THEN @ + 1 ELSE @]

\* onconnectionstatechange of object i, whose connectionState became state:
\* "failed" restarts ICE and sets the timer that looks again, "disconnected"
\* only sets its timer.
OnConnectionStateChange(k, i, state) ==
  LET k1 == [k EXCEPT !.p[i].cs = state]
  IN  IF state = "failed"
        THEN [RestartIce(k1, i) EXCEPT
                !.t = @ \cup {Timer("failed", i, k.p[i].remote, 0, {})}]
      ELSE IF state = "disconnected"
        THEN [k1 EXCEPT !.t = @ \cup {Timer("disconnected", i, k.p[i].remote, 0, {})}]
      ELSE k1

\* oniceconnectionstatechange of object i with iceConnectionState "failed".
OnIceConnectionFailed(k, i) == RestartIce(k, i)

\* The callback of the timer set on "failed", 1000 ms later.
FailedTimer(k, i) ==
  IF k.p[i].cs = "failed" /\ k.v.stream # "none" THEN EnsureTracksAreAdded(k, i) ELSE k

\* The callback of the timer set on "disconnected", 5000 ms later.
DisconnectedTimer(k, i) ==
  IF k.p[i].cs = "disconnected" THEN EnsureTracksAreAdded(RestartIce(k, i), i) ELSE k

\* A timer callback: createOffer, createAnswer (both throw on a closed object
\* and catch it), the delayed check-video-user of the video effect, or a look
\* at a connection that failed or was disconnected (the connectionState of a
\* closed object is "closed").
RunTimer(k, tm) ==
  LET k1 == [k EXCEPT !.t = @ \ {tm}]
  IN  IF tm.kind = "check" THEN [k1 EXCEPT !.out = @ \o CheckVideoUsers(k, tm.users)]
      ELSE IF k.p[tm.obj].closed THEN k1
      ELSE IF tm.kind = "failed" THEN FailedTimer(k1, tm.obj)
      ELSE IF tm.kind = "disconnected" THEN DisconnectedTimer(k1, tm.obj)
      ELSE IF tm.kind = "offer"
        THEN [k1 EXCEPT !.p[tm.obj].st = "offered",
                        !.out = @ \o <<RtcMsg("offer", k.roomId, tm.remote,
                                              [obj |-> tm.obj, re |-> 0])>>]
        ELSE [k1 EXCEPT !.p[tm.obj].st = "answered", !.p[tm.obj].link = tm.re,
                        !.v.remoteStreams = @ \cup {tm.remote},
                        !.out = @ \o <<RtcMsg("answer", k.roomId, tm.remote,
                                              [obj |-> tm.obj, re |-> tm.re])>>]

(***************************************************************************)
(* The relay under arbitrary client events                                 *)
(***************************************************************************)

InitServer ==
  /\ rooms = <<>>
  /\ currentRoom = [c \in Conns |-> Null]
  /\ currentUser = [c \in Conns |-> Null]
  /\ sio = [c \in Conns |-> {}]
  /\ connected = [c \in Conns |-> TRUE]
  /\ emitted = <<>>
  /\ lastEv = [ev |-> "connection", c |-> 0, roomId |-> Null, text |-> "", from |-> Null]
  /\ hist = [c \in Conns |-> Null]
  /\ lastChange = [r \in RoomIds |-> DefaultCode]
  /\ lastStored = [r \in RoomIds |-> DefaultCode]

\* useState(...) of App.jsx, and empty channels.
InitClient ==
  /\ up = [c \in Conns |-> <<>>]
  /\ down = [c \in Conns |-> <<>>]
  /\ cl = [c \in Conns |-> [joined |-> FALSE, roomId |-> "", userName |-> "",
                            code |-> "// Start code here", edits |-> 0, joins |-> 0,
                            typing |-> "", shownAt |-> 0, typingTimers |-> {}]]
  /\ sync = [c \in Conns |-> [snapshot |-> FALSE, after |-> TRUE]]

\* useState/useRef of VideoConference, with video off, and no timer set.
InitRtc ==
  /\ vc = [c \in Conns |->
            [videoOn |-> FALSE, stream |-> "none", media |-> <<>>,
             peers |-> [u \in PeerIds |-> 0],
             remoteStreams |-> {}, remoteVideoStates |-> {},
             remoteAudioStates |-> {}, videoPositions |-> {},
             users |-> {}, toggles |-> 0,
             audioTrack |-> TRUE, videoTrack |-> TRUE, failed |-> FALSE,
             senders |-> {}]]
  /\ pcs = [c \in Conns |-> <<>>]
  /\ timers = [c \in Conns |-> {}]
  /\ cstep = [ev |-> "mount", uid |-> 0, ids |-> <<>>, out |-> <<>>]

InitJobs ==
  /\ pending = <<>>
  /\ compiles = [req |-> 0, resp |-> 0]

\* The process starts at some time after the epoch; no throttled call was made.
InitThrottle ==
  /\ now = Wait
  /\ th = [c \in Conns |-> NewThrottle]

\* new RoomManager()
InitManager ==
  /\ mgr = <<>>
  /\ ret = [op |-> "new", roomId |-> "", userId |-> "", position |-> DefaultPosition,
            value |-> FALSE]

Init == InitServer /\ InitClient /\ InitJobs /\ InitRtc /\ InitThrottle /\ InitManager

Join == \E c \in Conns, roomId \in RoomIds, userName \in UserNames :
          OnJoin(c, roomId, userName) /\ UNCHANGED offServer

LeaveRoom == \E c \in Conns : OnLeaveRoom(c) /\ UNCHANGED offServer

Disconnect == \E c \in Conns : OnDisconnect(c) /\ UNCHANGED offServer

Next ==
  \/ Join
  \/ LeaveRoom
  \/ Disconnect

Spec == Init /\ [][Next]_vars

(***************************************************************************)
(* DocSpec: membership and codeChange.  The membership bug of the guard    *)
(* `currentRoom && currentUser` is reached through the room id "".         *)
(***************************************************************************)

DocJoin == \E c \in Conns, roomId \in RoomIds, userName \in TruthyNames :
             OnJoin(c, roomId, userName) /\ UNCHANGED offServer

CodeChange == \E c \in Conns, roomId \in RoomIds, code \in Codes :
                OnCodeChange(c, roomId, code) /\ UNCHANGED offServer

DocNext ==
  \/ DocJoin
  \/ CodeChange
  \/ LeaveRoom
  \/ Disconnect

DocSpec == Init /\ [][DocNext]_vars

(***************************************************************************)
(* VideoSpec: membership and the video handlers.                           *)
(***************************************************************************)

JoinVideo == \E c \in Conns, roomId \in RoomIds :
               OnJoinVideo(c, roomId) /\ UNCHANGED offServer

LeaveVideo == \E c \in Conns, roomId \in RoomIds :
                OnLeaveVideo(c, roomId) /\ UNCHANGED offServer

VideoPositionChange ==
  \E c \in Conns, roomId \in RoomIds, userId \in Conns, position \in Positions :
    OnVideoPositionChange(c, roomId, userId, position) /\ UNCHANGED offServer

VideoNext ==
  \/ DocJoin
  \/ LeaveRoom
  \/ Disconnect
  \/ JoinVideo
  \/ LeaveVideo
  \/ VideoPositionChange

VideoSpec == Init /\ [][VideoNext]_vars

(***************************************************************************)
(* SignalSpec: membership and the signaling router.  A targetUserId is any *)
(* string: a socket id or a room id.                                       *)
(***************************************************************************)

SignalEvents == {"offer", "answer", "ice-candidate"}

TargetIds == {SocketId(c) : c \in Conns} \cup TruthyRooms

Signal ==
  \E ev \in SignalEvents, c \in Conns, roomId \in TruthyRooms, targetUserId \in TargetIds :
    OnSignal(ev, c, roomId, targetUserId, "sdp")
      /\ UNCHANGED offServer

SignalJoin == \E c \in Conns, roomId \in TruthyRooms, userName \in TruthyNames :
                OnJoin(c, roomId, userName) /\ UNCHANGED offServer

SignalNext ==
  \/ SignalJoin
  \/ LeaveRoom
  \/ Disconnect
  \/ Signal

SignalSpec == Init /\ [][SignalNext]_vars

(***************************************************************************)
(* NoticeSpec: membership and the fan-out notices (typing, languageChange, *)
(* video-toggle, audio-toggle).                                            *)
(***************************************************************************)

Languages == {"python"}

Typing == \E c \in Conns, roomId \in TruthyRooms, userName \in TruthyNames :
            OnTyping(c, roomId, userName) /\ UNCHANGED offServer

LanguageChange == \E c \in Conns, roomId \in TruthyRooms, language \in Languages :
                    OnLanguageChange(c, roomId, language) /\ UNCHANGED offServer

VideoToggle == \E c \in Conns, roomId \in TruthyRooms, isVideoEnabled \in BOOLEAN :
                 OnVideoToggle(c, roomId, isVideoEnabled) /\ UNCHANGED offServer

AudioToggle == \E c \in Conns, roomId \in TruthyRooms, isAudioEnabled \in BOOLEAN :
                 OnAudioToggle(c, roomId, isAudioEnabled) /\ UNCHANGED offServer

NoticeNext ==
  \/ SignalJoin
  \/ LeaveRoom
  \/ Disconnect
  \/ Typing
  \/ LanguageChange
  \/ VideoToggle
  \/ AudioToggle

NoticeSpec == Init /\ [][NoticeNext]_vars

(***************************************************************************)
(* RouterSpec: membership, join-video and the handlers that only forward:  *)
(* offer, answer, ice-candidate, video-toggle, audio-toggle and            *)
(* check-video-user.                                                       *)
(***************************************************************************)

CheckVideoUser == \E c \in Conns, roomId \in TruthyRooms, userId \in Conns :
                    OnCheckVideoUser(c, roomId, userId) /\ UNCHANGED offServer

RouterJoinVideo == \E c \in Conns, roomId \in TruthyRooms :
                     OnJoinVideo(c, roomId) /\ UNCHANGED offServer

RouterNext ==
  \/ SignalJoin
  \/ LeaveRoom
  \/ RouterJoinVideo
  \/ Signal
  \/ VideoToggle
  \/ AudioToggle
  \/ CheckVideoUser

RouterSpec == Init /\ [][RouterNext]_vars

(***************************************************************************)
(* ThrottleSpec: membership, join-video and video-position-change events   *)
(* through throttle(), with the clock of the server and its timers.  A     *)
(* timer runs at its due time or later.                                    *)
(***************************************************************************)

\* The clock advances by one of these amounts, in ms.
Steps == {25, 50}

Tick == \E d \in Steps :
  /\ now + d <= MaxTime
  /\ now' = now + d
  /\ UNCHANGED <<serverVars, clientVars, jobVars, rtcVars, th, managerVars>>

\* The video-position-change events received so far, over all connections.
Calls == Cardinality({x \in Conns \X (1..MaxCalls) : x[2] <= th[x[1]].calls})

\* socket.on("video-position-change", throttledPositionChange)
ThrottledPositionChange ==
  \E c \in Conns, roomId \in TruthyRooms, userId \in Conns, position \in Positions :
    LET args == [roomId |-> roomId, userId |-> userId, position |-> position]
        r    == Throttled(th[c], now, args)
    IN  /\ connected[c]
        /\ Calls < MaxCalls
        /\ th' = [th EXCEPT ![c] = r.k]
        /\ IF r.run THEN PositionChange(c, roomId, userId, position)
                    ELSE UNCHANGED serverVars
        /\ UNCHANGED <<clientVars, jobVars, rtcVars, now, managerVars>>

\* The timer callback of throttle().
TrailingPositionChange ==
  \E c \in Conns : \E tm \in th[c].timers :
    /\ now >= tm.due
    /\ th' = [th EXCEPT ![c] = Trailing(th[c], now, tm)]
    /\ PositionChange(c, tm.args.roomId, tm.args.userId, tm.args.position)
    /\ UNCHANGED <<clientVars, jobVars, rtcVars, now, managerVars>>

ThrottleJoinVideo == \E c \in Conns, roomId \in TruthyRooms :
                       OnJoinVideo(c, roomId) /\ UNCHANGED offServer

ThrottleNext ==
  \/ SignalJoin
  \/ ThrottleJoinVideo
  \/ ThrottledPositionChange
  \/ TrailingPositionChange
  \/ Tick

ThrottleSpec == Init /\ [][ThrottleNext]_vars

(***************************************************************************)
(* PositionSpec: the position handler of the relay, run for any event, and *)
(* updateVideoPosition of a RoomManager whose room "r1" has any video      *)
(* users.                                                                  *)
(***************************************************************************)

ManagerRooms == {"r1", "r2"}

ManagerIds == {"u1", "u2"}

\* The methods that return a boolean.
Predicates == {"removeUser", "updateVideoPosition"}

\* One call of a method: ret.value is the boolean it returned (FALSE for a
\* method that returns none, or the room).
Called(op, roomId, userId, position, r) ==
  /\ mgr' = r.rooms
  /\ ret' = [op |-> op, roomId |-> roomId, userId |-> userId, position |-> position,
             value |-> IF op \in Predicates THEN r.value ELSE FALSE]
  /\ UNCHANGED <<serverVars, clientVars, jobVars, rtcVars, throttleVars>>

PositionNext ==
  \/ SignalJoin
  \/ ThrottleJoinVideo
  \/ VideoPositionChange
  \/ \E userId \in ManagerIds :
       Called("addVideoUser", "r1", userId, DefaultPosition,
              AddVideoUser(mgr, "r1", userId, "a", DefaultPosition))
  \/ \E roomId \in ManagerRooms, userId \in ManagerIds, position \in Positions :
       Called("updateVideoPosition", roomId, userId, position,
              UpdateVideoPosition(mgr, roomId, userId, position))

PositionSpec == Init /\ [][PositionNext]_vars

(***************************************************************************)
(* ManagerSpec: one RoomManager under any sequence of calls of its public  *)
(* methods that change or create state.                                    *)
(***************************************************************************)

ManagerNext ==
  \/ \E roomId \in ManagerRooms :
       Called("getRoom", roomId, "", DefaultPosition, GetRoom(mgr, roomId))
  \/ \E roomId \in ManagerRooms, userId \in ManagerIds :
       Called("addUser", roomId, userId, DefaultPosition,
              AddUser(mgr, roomId, [id |-> userId, name |-> "a"]))
  \/ \E roomId \in ManagerRooms, userId \in ManagerIds :
       Called("removeUser", roomId, userId, DefaultPosition,
              RemoveUser(mgr, roomId, userId))
  \/ \E roomId \in ManagerRooms :
       Called("updateCode", roomId, "", DefaultPosition, UpdateCode(mgr, roomId, "x"))
  \/ \E roomId \in ManagerRooms, userId \in ManagerIds :
       Called("addVideoUser", roomId, userId, DefaultPosition,
              AddVideoUser(mgr, roomId, userId, "a", DefaultPosition))
  \/ \E roomId \in ManagerRooms, userId \in ManagerIds :
       Called("removeVideoUser", roomId, userId, DefaultPosition,
              RemoveVideoUser(mgr, roomId, userId))
  \/ \E roomId \in ManagerRooms, userId \in ManagerIds, position \in Positions :
       Called("updateVideoPosition", roomId, userId, position,
              UpdateVideoPosition(mgr, roomId, userId, position))

ManagerSpec == Init /\ [][ManagerNext]_vars

(***************************************************************************)
(* CompileSpec: membership and compileCode; each call of the execution     *)
(* service ends in a response or in a failure.                             *)
(***************************************************************************)

Outputs == {"out"}

CompileCode ==
  \E c \in Conns, roomId \in RoomIds :
    /\ compiles.req < MaxCompiles
    /\ OnCompileCode(c, roomId)
    /\ UNCHANGED <<clientVars, rtcVars, throttleVars, managerVars>>

CompileDone ==
  \E i \in 1..Len(pending), output \in Outputs :
    OnCompileDone(i, output) /\ UNCHANGED <<clientVars, rtcVars, throttleVars, managerVars>>

CompileFail ==
  \E i \in 1..Len(pending) :
    OnCompileFail(i) /\ UNCHANGED <<clientVars, rtcVars, throttleVars, managerVars>>

CompileNext ==
  \/ DocJoin
  \/ LeaveRoom
  \/ Disconnect
  \/ CompileCode
  \/ CompileDone
  \/ CompileFail

CompileSpec == Init /\ [][CompileNext]_vars

(***************************************************************************)
(* EditSpec: App.jsx clients and the relay, joined by FIFO channels        *)
(***************************************************************************)

ClientMsg(ev, roomId, text) == [ev |-> ev, roomId |-> roomId, text |-> text]

\* joinRoom: the form holds a room id and a user name, both non-empty.
ClientJoin(c, roomId, userName) ==
  /\ connected[c]
  /\ ~cl[c].joined
  /\ cl[c].joins < MaxJoins
  /\ up' = [up EXCEPT ![c] = Append(@, ClientMsg("join", roomId, userName))]
  /\ cl' = [cl EXCEPT ![c].joined = TRUE, ![c].roomId = roomId,
                      ![c].userName = userName, ![c].joins = @ + 1]
  /\ sync' = [sync EXCEPT ![c] = [snapshot |-> FALSE, after |-> TRUE]]
  /\ UNCHANGED <<down, serverVars, jobVars, rtcVars, throttleVars, managerVars>>

\* leaveRoom
ClientLeave(c) ==
  /\ connected[c]
  /\ cl[c].joined
  /\ up' = [up EXCEPT ![c] = Append(@, ClientMsg("leaveRoom", Null, ""))]
  /\ cl' = [cl EXCEPT ![c].joined = FALSE, ![c].roomId = "", ![c].userName = "",
                      ![c].code = "// Start code here"]
  /\ UNCHANGED <<down, sync, serverVars, jobVars, rtcVars, throttleVars, managerVars>>

\* handleCodeChange: a local edit of the editor content.
ClientEdit(c, newCode) ==
  /\ connected[c]
  /\ cl[c].joined
  /\ cl[c].edits < MaxEdits
  /\ up' = [up EXCEPT ![c] = @ \o
              << ClientMsg("codeChange", cl[c].roomId, newCode),
                 ClientMsg("typing", cl[c].roomId, cl[c].userName) >>]
  /\ cl' = [cl EXCEPT ![c].code = newCode, ![c].edits = @ + 1]
  /\ sync' = [sync EXCEPT ![c].after = @ /\ sync[c].snapshot]
  /\ UNCHANGED <<down, serverVars, jobVars, rtcVars, throttleVars, managerVars>>

\* The listeners of App.jsx: codeUpdate sets the editor content; the other
\* events set display state (member list, typing banner) only.
ClientRecv(c) ==
  /\ down[c] # <<>>
  /\ down' = [down EXCEPT ![c] = Tail(@)]
  /\ cl' = IF Head(down[c]).ev = "codeUpdate"
             THEN [cl EXCEPT ![c].code = Head(down[c]).text]
             ELSE cl
  /\ sync' = IF Head(down[c]).ev = "codeUpdate" /\ cl[c].joined
               THEN [sync EXCEPT ![c].snapshot = TRUE]
               ELSE sync
  /\ UNCHANGED <<up, serverVars, jobVars, rtcVars, throttleVars, managerVars>>

\* The relay takes the next event of connection c, runs its handler and puts
\* every emitted message on the channel of each of its recipients.
ServerRecv(c) ==
  /\ up[c] # <<>>
  /\ LET m == Head(up[c])
     IN  IF m.ev = "join" THEN OnJoin(c, m.roomId, m.text)
         ELSE IF m.ev = "codeChange" THEN OnCodeChange(c, m.roomId, m.text)
         ELSE IF m.ev = "typing" THEN OnTyping(c, m.roomId, m.text)
         ELSE OnLeaveRoom(c)
  /\ up' = [up EXCEPT ![c] = Tail(@)]
  /\ down' = [d \in Conns |->
                down[d] \o SelectSeq(emitted', LAMBDA m : d \in m.to)]
  /\ UNCHANGED <<cl, sync, jobVars, rtcVars, throttleVars, managerVars>>

EditNext ==
  \/ \E c \in Conns, roomId \in TruthyRooms, userName \in TruthyNames :
       ClientJoin(c, roomId, userName)
  \/ \E c \in Conns : ClientLeave(c)
  \/ \E c \in Conns, newCode \in Codes : ClientEdit(c, newCode)
  \/ \E c \in Conns : ClientRecv(c)
  \/ \E c \in Conns : ServerRecv(c)

EditSpec == Init /\ [][EditNext]_vars

(***************************************************************************)
(* IndicatorSpec: the typing indicator of App under userTyping notices and *)
(* the passing of time.  typing is the displayed text, typingTimers the    *)
(* due times of the setTimeout calls not yet run, and shownAt the time of  *)
(* the last setTyping with a notice (history).  A timer runs no earlier    *)
(* than it is due, and timers run in the order of their due times.         *)
(***************************************************************************)

\* The delay of the setTimeout that clears the indicator, in milliseconds.
TypingExpiry == 2000

\* Time passes in steps of TypingStep up to MaxTypingTime.
TypingStep == 1000

MaxTypingTime == 4050

\* The listener of userTyping, run at time t on the App state a.
OnUserTyping(a, user, t) ==
  [a EXCEPT !.typing = user \o "... is Typing", !.shownAt = t,
            !.typingTimers = @ \cup {t + TypingExpiry}]

\* The callback of the timer due at d: setTyping("").
ClearTyping(a, d) == [a EXCEPT !.typing = "", !.typingTimers = @ \ {d}]

UserTyping ==
  \E c \in Conns, user \in TruthyNames :
    /\ cl' = [cl EXCEPT ![c] = OnUserTyping(@, user, now)]
    /\ UNCHANGED <<serverVars, up, down, sync, jobVars, rtcVars, th, managerVars>>
    /\ UNCHANGED now

TypingTimeout ==
  \E c \in Conns : \E d \in cl[c].typingTimers :
    /\ \A e \in cl[c].typingTimers : d <= e
    /\ now >= d
    /\ cl' = [cl EXCEPT ![c] = ClearTyping(@, d)]
    /\ UNCHANGED <<serverVars, up, down, sync, jobVars, rtcVars, th, managerVars>>
    /\ UNCHANGED now

TypingTick ==
  /\ now + TypingStep <= MaxTypingTime
  /\ now' = now + TypingStep
  /\ UNCHANGED <<serverVars, clientVars, jobVars, rtcVars, th, managerVars>>

IndicatorNext ==
  \/ UserTyping
  \/ TypingTimeout
  \/ TypingTick

IndicatorSpec == Init /\ [][IndicatorNext]_vars

(***************************************************************************)
(* PeerSpec: one VideoConference component under arbitrary server events   *)
(* and local actions.                                                      *)
(***************************************************************************)

\* The number of times video was switched so far.
Toggles == Cardinality({x \in Conns \X (1..MaxToggles) : x[2] <= vc[x[1]].toggles})

\* The step of client c to the client state k.
Commit(c, k) ==
  /\ Len(k.p) <= MaxPcs
  /\ vc' = [vc EXCEPT ![c] = k.v]
  /\ pcs' = [pcs EXCEPT ![c] = k.p]
  /\ timers' = [timers EXCEPT ![c] = k.t]

Me == 1

\* Descriptions a remote object may send: an offer, or an answer to an offer.
Offers == {[obj |-> 1, re |-> 0]}

Answers == {[obj |-> 1, re |-> i] : i \in 1..MaxPcs}

\* Lists of one or two video users.
UserLists ==
  {<<u>> : u \in PeerIds} \cup
  {ids \in {<<u, w>> : u \in PeerIds, w \in PeerIds} : ids[1] < ids[2]}

\* The member list of a full room.
MemberLists == {PeerIds}

\* The users other than the component's own.
Remotes == PeerIds \ {Me}

\* A step of the component, which is on screen once the user has joined; uid
\* and ids are the user id or the list of user ids of the event it handled.
PeerStep(ev, uid, ids, k) ==
  /\ cl[Me].joined
  /\ Commit(Me, k)
  /\ cstep' = [ev |-> ev, uid |-> uid, ids |-> ids, out |-> k.out]
  /\ UNCHANGED <<serverVars, clientVars, jobVars, throttleVars, managerVars>>

PeerLocal(ev, uid, k) == PeerStep(ev, uid, <<>>, k)

PeerVideoOn ==
  /\ ~vc[Me].videoOn /\ vc[Me].toggles < MaxSwitches
  /\ PeerLocal("video-on", 0, VideoOn(Client(Me)))

PeerVideoOff ==
  /\ vc[Me].videoOn /\ vc[Me].toggles < MaxSwitches
  /\ PeerLocal("video-off", 0, VideoOff(Client(Me)))

PeerMediaReady == vc[Me].media # <<>> /\ PeerLocal("media-ready", 0, MediaReady(Client(Me)))

PeerMediaFailed == vc[Me].media # <<>> /\ PeerLocal("media-failed", 0, MediaFailed(Client(Me)))

PeerTimer == \E tm \in timers[Me] : PeerLocal("timer", 0, RunTimer(Client(Me), tm))

PeerNext ==
  \/ \E roomId \in TruthyRooms, userName \in TruthyNames : ClientJoin(Me, roomId, userName)
  \/ PeerVideoOn
  \/ PeerVideoOff
  \/ PeerMediaReady
  \/ PeerMediaFailed
  \/ PeerTimer
  \/ \E u \in PeerIds :
       PeerLocal("user-joined-video", u, HandleUserJoinedVideo(Client(Me), u))
  \/ \E ids \in UserLists :
       PeerStep("existing-video-users", 0, ids, HandleExistingVideoUsers(Client(Me), ids))
  \/ \E u \in Remotes, offer \in Offers :
       PeerLocal("offer", u, HandleOffer(Client(Me), u, offer))
  \/ \E u \in Remotes, answer \in Answers :
       PeerLocal("answer", u, HandleAnswer(Client(Me), u, answer))
  \/ \E u \in Remotes :
       PeerLocal("user-left-video", u, HandleUserLeftVideo(Client(Me), u))
  \/ \E ids \in MemberLists :
       PeerLocal("userJoined", 0, UsersChanged(Client(Me), ids))

PeerSpec == Init /\ [][PeerNext]_vars

(***************************************************************************)
(* RecoverySpec: one component with one remote user, whose link it offers  *)
(* or answers and whose connection reports "connected", "disconnected" and *)
(* "failed".  A connectionstatechange event is a change of state of an     *)
(* open connection that has a description set; a second timer of the same  *)
(* kind pending for the same object is not told from the first.            *)
(***************************************************************************)

ConnectionStates == {"connected", "disconnected", "failed"}

\* The remote user of the component's link.
Peer == CHOOSE u \in Remotes : TRUE

ConnectionStateChange ==
  \E state \in ConnectionStates :
    LET i == vc[Me].peers[Peer]
    IN  /\ i # 0 /\ ~pcs[Me][i].closed /\ pcs[Me][i].st # "new"
        /\ pcs[Me][i].cs # state
        /\ PeerStep("connectionstatechange", Peer, <<>>,
                    OnConnectionStateChange(Client(Me), i, state))

IceConnectionFailed ==
  LET i == vc[Me].peers[Peer]
  IN  /\ i # 0 /\ ~pcs[Me][i].closed /\ pcs[Me][i].st # "new"
      /\ pcs[Me][i].ice < MaxRestarts
      /\ PeerStep("iceconnectionstatechange", Peer, <<>>,
                  OnIceConnectionFailed(Client(Me), i))

RecoveryNext ==
  \/ \E roomId \in TruthyRooms, userName \in TruthyNames : ClientJoin(Me, roomId, userName)
  \/ PeerVideoOn
  \/ PeerMediaReady
  \/ PeerTimer
  \/ PeerLocal("user-joined-video", Peer, HandleUserJoinedVideo(Client(Me), Peer))
  \/ \E offer \in Offers : PeerLocal("offer", Peer, HandleOffer(Client(Me), Peer, offer))
  \/ \E answer \in Answers : PeerLocal("answer", Peer, HandleAnswer(Client(Me), Peer, answer))
  \/ ConnectionStateChange
  \/ IceConnectionFailed

RecoverySpec == Init /\ [][RecoveryNext]_vars

(***************************************************************************)
(* TrackSpec: one component with its video switch, its remote video users  *)
(* and the microphone and camera buttons.                                  *)
(***************************************************************************)

TrackNext ==
  \/ \E roomId \in TruthyRooms, userName \in TruthyNames : ClientJoin(Me, roomId, userName)
  \/ PeerVideoOn
  \/ PeerVideoOff
  \/ PeerMediaReady
  \/ PeerTimer
  \/ \E u \in Remotes :
       PeerLocal("user-joined-video", u, HandleUserJoinedVideo(Client(Me), u))
  \/ \E u \in Remotes, offer \in Offers :
       PeerLocal("offer", u, HandleOffer(Client(Me), u, offer))
  \/ PeerLocal("toggleAudio", 0, ToggleAudio(Client(Me)))
  \/ PeerLocal("toggleLocalVideo", 0, ToggleLocalVideo(Client(Me)))

TrackSpec == Init /\ [][TrackNext]_vars

(***************************************************************************)
(* RtcSpec: the components of all connections and the relay, joined by     *)
(* FIFO channels; timers run in any order.                                 *)
(***************************************************************************)

\* The events of the relay that the component, or the userJoined listener that
\* feeds its `users` prop, listens to.
RtcEvents == {"userJoined", "user-joined-video", "existing-video-users", "offer",
              "answer", "user-left-video"}

\* A step of the component of c, taking an event from the relay or not: what
\* it emits goes on its channel.
RtcLocal(c, k, recv) ==
  /\ Commit(c, k)
  /\ up' = [up EXCEPT ![c] = @ \o k.out]
  /\ down' = [down EXCEPT ![c] = IF recv THEN Tail(@) ELSE @]
  /\ UNCHANGED <<serverVars, cl, sync, jobVars, cstep, throttleVars, managerVars>>

RtcVideoOn(c) ==
  /\ cl[c].joined /\ ~vc[c].videoOn /\ Toggles < MaxToggles
  /\ RtcLocal(c, VideoOn(Client(c)), FALSE)

RtcVideoOff(c) ==
  /\ cl[c].joined /\ vc[c].videoOn /\ Toggles < MaxToggles
  /\ RtcLocal(c, VideoOff(Client(c)), FALSE)

RtcMediaReady(c) == vc[c].media # <<>> /\ RtcLocal(c, MediaReady(Client(c)), FALSE)

RtcTimer(c) == \E tm \in timers[c] : RtcLocal(c, RunTimer(Client(c), tm), FALSE)

\* The listeners of the component (and the userJoined listener) take the next
\* event from the relay.
RtcClientRecv(c) ==
  /\ down[c] # <<>>
  /\ LET m == Head(down[c])
     IN  RtcLocal(c,
           IF m.ev = "userJoined" THEN UsersChanged(Client(c), UserIds(m.users))
           ELSE IF m.ev = "user-joined-video" THEN HandleUserJoinedVideo(Client(c), m.uid)
           ELSE IF m.ev = "existing-video-users"
             THEN HandleExistingVideoUsers(Client(c),
                    [i \in 1..Len(m.video) |-> m.video[i].userId])
           ELSE IF m.ev = "offer" THEN HandleOffer(Client(c), m.uid, m.payload)
           ELSE IF m.ev = "answer" THEN HandleAnswer(Client(c), m.uid, m.payload)
           ELSE HandleUserLeftVideo(Client(c), m.uid),
           TRUE)

\* The relay takes the next event of connection c and runs its handler.
RtcServerRecv(c) ==
  /\ up[c] # <<>>
  /\ LET m == Head(up[c])
     IN  IF m.ev = "join" THEN OnJoin(c, m.roomId, m.text)
         ELSE IF m.ev = "join-video" THEN OnJoinVideo(c, m.roomId)
         ELSE IF m.ev = "leave-video" THEN OnLeaveVideo(c, m.roomId)
         ELSE IF m.ev = "check-video-user" THEN OnCheckVideoUser(c, m.roomId, m.text)
         ELSE OnSignal(m.ev, c, m.roomId, SocketId(m.text), m.payload)
  /\ up' = [up EXCEPT ![c] = Tail(@)]
  /\ down' = [d \in Conns |->
                down[d] \o SelectSeq(emitted',
                                     LAMBDA m : d \in m.to /\ m.ev \in RtcEvents)]
  /\ UNCHANGED <<cl, sync, jobVars, rtcVars, throttleVars, managerVars>>

RtcNext ==
  \/ \E c \in Conns, roomId \in TruthyRooms, userName \in TruthyNames :
       ClientJoin(c, roomId, userName)
  \/ \E c \in Conns : RtcVideoOn(c)
  \/ \E c \in Conns : RtcVideoOff(c)
  \/ \E c \in Conns : RtcMediaReady(c)
  \/ \E c \in Conns : RtcTimer(c)
  \/ \E c \in Conns : RtcClientRecv(c)
  \/ \E c \in Conns : RtcServerRecv(c)

RtcSpec == Init /\ [][RtcNext]_vars

(***************************************************************************)
(* FailSpec: RtcSpec with calls of getUserMedia that are rejected.         *)
(***************************************************************************)

RtcMediaFailed(c) == vc[c].media # <<>> /\ RtcLocal(c, MediaFailed(Client(c)), FALSE)

FailNext ==
  \/ RtcNext
  \/ \E c \in Conns : RtcMediaFailed(c)

FailSpec == Init /\ [][FailNext]_vars

(***************************************************************************)
(* Properties of the member list (Spec)                                    *)
(***************************************************************************)

\* The connections that have joined room r and have not since left it or
\* disconnected, by the history of events.
JoinedNow(r) == {d \in Conns : hist[d] = r}

\* The same set at the moment message i of the last handler was emitted: the
\* first of the four messages of a join is sent after the implicit leave and
\* before the sender is registered again.
JoinedAt(i, r) ==
  IF lastEv.ev = "join" /\ Len(emitted) = 4 /\ i = 1
    THEN JoinedNow(r) \ {lastEv.c}
    ELSE JoinedNow(r)

\* The members of room r whose socket is still connected.
LiveMembers(r) == {d \in UserIds(rooms[r].users) : connected[d]}

\* C1: every userJoined list emitted to a room holds exactly the connections
\* that have joined that room and have not since left it or disconnected.
C1_UserJoinedListIsMembership ==
  \A i \in 1..Len(emitted) :
    emitted[i].ev = "userJoined" =>
      UserIds(emitted[i].users) = JoinedAt(i, emitted[i].target)

\* C3: a connection id is in the users map of at most one room.
C3_AtMostOneRoom ==
  \A c \in Conns :
    Cardinality({r \in DOMAIN rooms : c \in UserIds(rooms[r].users)}) <= 1

\* C7: a room whose last member has left or disconnected is no longer in the
\* registry: every room of the registry has a member.
C7_EmptyRoomRemoved ==
  \A r \in DOMAIN rooms : rooms[r].users # <<>>

\* C9: a leaveRoom from a connection that is not joined (it never joined, or it
\* has left since) changes no room and emits nothing, and the next join of that
\* connection acts as a first join: no list goes to another room, no other room
\* changes, the sender gets the snapshot and is on the list sent to the room.
C9_LeaveRoomIdempotent ==
  /\ [](lastEv.ev = "leaveRoom" /\ lastEv.from = Null => emitted = <<>>)
  /\ [][ /\ (lastEv'.ev = "leaveRoom" /\ hist[lastEv'.c] = Null) => rooms' = rooms
         /\ (lastEv'.ev = "join" /\ hist[lastEv'.c] = Null) =>
              /\ \A r \in DOMAIN rooms \ {lastEv'.roomId} : rooms'[r] = rooms[r]
              /\ Len(emitted') = 3
              /\ emitted'[1].ev = "codeUpdate" /\ emitted'[1].to = {lastEv'.c}
              /\ emitted'[3].ev = "userJoined"
              /\ emitted'[3].target = lastEv'.roomId
              /\ lastEv'.c \in emitted'[3].to
              /\ lastEv'.c \in UserIds(emitted'[3].users)
              /\ emitted'[3].users = rooms'[lastEv'.roomId].users ]_vars

\* C9 witness: a connection that joined and left sends leaveRoom again.
C9_Witness ==
  /\ lastEv.ev = "leaveRoom" /\ lastEv.from = Null
  /\ \E r \in DOMAIN rooms : rooms[r].users # <<>>
  /\ currentRoom[lastEv.c] = Null /\ lastEv.c \in {d \in Conns : connected[d]}

\* C10: a join by a connection that is joined to a different room removes it
\* from the old room, sends the old room's remaining members a list without
\* it, and then sends the new room a list with it.
C10_JoinLeavesOldRoomFirst ==
  (lastEv.ev = "join" /\ lastEv.from # Null /\ lastEv.from # lastEv.roomId) =>
    /\ lastEv.c \notin UserIds(rooms[lastEv.from].users)
    /\ Len(emitted) = 4
    /\ emitted[1].ev = "userJoined" /\ emitted[1].target = lastEv.from
    /\ lastEv.c \notin UserIds(emitted[1].users)
    /\ emitted[1].to = LiveMembers(lastEv.from)
    /\ emitted[4].ev = "userJoined" /\ emitted[4].target = lastEv.roomId
    /\ lastEv.c \in UserIds(emitted[4].users)

(***************************************************************************)
(* Properties of the document (DocSpec)                                    *)
(***************************************************************************)

\* C4: a codeChange from a member stores the text as the room's document and
\* sends codeUpdate with that text to every other current member of the room,
\* and not to the sender.
C4_CodeChangeBroadcast ==
  (/\ lastEv.ev = "codeChange"
   /\ lastEv.roomId \in DOMAIN rooms
   /\ lastEv.c \in UserIds(rooms[lastEv.roomId].users)) =>
    /\ rooms[lastEv.roomId].code = lastEv.text
    /\ Len(emitted) = 1
    /\ emitted[1].ev = "codeUpdate"
    /\ emitted[1].text = lastEv.text
    /\ emitted[1].to = LiveMembers(lastEv.roomId) \ {lastEv.c}

\* C4 witness: a member's codeChange reached another member.
C4_Witness ==
  /\ lastEv.ev = "codeChange"
  /\ lastEv.roomId \in DOMAIN rooms
  /\ lastEv.c \in UserIds(rooms[lastEv.roomId].users)
  /\ emitted[1].to # {}

\* The codeUpdate snapshot of a join goes to the joining connection only and
\* carries `text`.
SnapshotIs(text) ==
  /\ \E i \in 1..Len(emitted) : emitted[i].ev = "codeUpdate"
  /\ \A i \in 1..Len(emitted) :
       emitted[i].ev = "codeUpdate" =>
         emitted[i].to = {lastEv.c} /\ emitted[i].text = text

\* C5 (as stated): the snapshot sent on join carries the text of the last
\* codeChange processed for that room id, or the default text if there was none.
C5_SnapshotIsLastChange ==
  lastEv.ev = "join" => SnapshotIs(lastChange[lastEv.roomId])

\* C5 (amended): the snapshot sent on join goes to the joining connection only
\* and carries the text of the last codeChange processed for that room id while
\* the room was in the registry, or the default text if there was none.
C5_SnapshotIsLastStored ==
  lastEv.ev = "join" => SnapshotIs(lastStored[lastEv.roomId])

\* C5 witness: a join to a room whose document was changed before.
C5_Witness ==
  /\ lastEv.ev = "join"
  /\ lastStored[lastEv.roomId] \in Codes
  /\ Len(rooms[lastEv.roomId].users) > 1

(***************************************************************************)
(* Properties of the video participants (VideoSpec)                        *)
(***************************************************************************)

\* C2: every id in a room's videoUsers map is also in that room's users map.
C2_VideoUsersAreMembers ==
  \A r \in DOMAIN rooms : VideoIds(rooms[r].videoUsers) \subseteq UserIds(rooms[r].users)

\* C8: leaveRoom by a joined connection, and disconnect of a joined connection,
\* remove it from its room's users and videoUsers and send every remaining
\* member a userJoined list without it and a user-left-video naming it.
C8_LeaveRemovesAndNotifies ==
  (lastEv.ev \in {"leaveRoom", "disconnect"} /\ lastEv.from # Null) =>
    /\ lastEv.c \notin UserIds(rooms[lastEv.from].users)
    /\ lastEv.c \notin VideoIds(rooms[lastEv.from].videoUsers)
    /\ \E i \in 1..Len(emitted) :
         /\ emitted[i].ev = "userJoined" /\ emitted[i].target = lastEv.from
         /\ lastEv.c \notin UserIds(emitted[i].users)
         /\ LiveMembers(lastEv.from) \subseteq emitted[i].to
    /\ \E i \in 1..Len(emitted) :
         /\ emitted[i].ev = "user-left-video" /\ emitted[i].uid = lastEv.c
         /\ LiveMembers(lastEv.from) \subseteq emitted[i].to

(***************************************************************************)
(* Properties of the editors (EditSpec)                                    *)
(***************************************************************************)

\* No event is in flight in either direction.
Quiescent == \A c \in Conns : up[c] = <<>> /\ down[c] = <<>>

\* C6: in a room with two or more members who have each sent a codeChange
\* (here: each after it had received the room's snapshot), once every message
\* in flight has been delivered the editor text of every member equals the
\* document text the server stores for the room.
C6_EditorsConverge ==
  \A r \in DOMAIN rooms :
    (/\ Quiescent
     /\ Cardinality(UserIds(rooms[r].users)) >= 2
     /\ \A c \in UserIds(rooms[r].users) :
          cl[c].joined /\ cl[c].edits >= 1 /\ sync[c].snapshot /\ sync[c].after) =>
      \A c \in UserIds(rooms[r].users) : cl[c].code = rooms[r].code

(***************************************************************************)
(* Properties of code execution (CompileSpec)                              *)
(***************************************************************************)

\* C17: every compileCode event results in exactly one codeResponse: once no
\* call of the execution service is outstanding there have been as many
\* responses as requests, and each response goes to every connected socket of
\* the room named in the request, the requester included.
C17_OneResponsePerRequest ==
  /\ pending = <<>> => compiles.resp = compiles.req
  /\ lastEv.ev \in {"compileDone", "compileError"} =>
       /\ Len(emitted) = 1
       /\ emitted[1].ev = "codeResponse"
       /\ emitted[1].target = lastEv.roomId
       /\ connected[lastEv.c] => lastEv.c \in emitted[1].to

\* C18: when the call of the execution service fails for a request on a room
\* of the registry, the handler sends exactly one codeResponse, with the text
\* "Error executing code", to every connected socket of the room, and changes
\* nothing in the registry (stored output, documents, member maps).
C18_FailureBroadcastsSyntheticResult ==
  [][ (lastEv'.ev = "compileError" /\ pending' # pending) =>
        /\ rooms' = rooms
        /\ Len(emitted') = 1
        /\ emitted'[1].ev = "codeResponse"
        /\ emitted'[1].text = "Error executing code"
        /\ emitted'[1].to = {d \in Conns : connected[d] /\ lastEv'.roomId \in sio[d]}
    ]_vars

\* C18 witness: a failed run in a room that holds the output of an earlier
\* run; the synthetic result reached a member and the stored output stayed.
C18_Witness ==
  /\ lastEv.ev = "compileError"
  /\ rooms[lastEv.roomId].output \in Outputs
  /\ emitted[1].text = ErrorOutput
  /\ emitted[1].to # {}

(***************************************************************************)
(* Properties of the signaling router (SignalSpec)                         *)
(***************************************************************************)

\* C19: for every targetUserId, an offer, answer or ice-candidate is delivered
\* to at most one connection, the one whose id is targetUserId, and the
\* envelope's fromUserId is the id of the sending connection.
C19_SignalToTargetOnly ==
  lastEv.ev \in SignalEvents =>
    \A i \in 1..Len(emitted) :
      /\ emitted[i].to \subseteq {d \in Conns : SocketId(d) = lastEv.text}
      /\ emitted[i].uid = lastEv.c

Linked(c) == {vc[c].peers[u] : u \in PeerIds} \ {0}

\* C13: whatever the order of user-joined-video, existing-video-users, offer,
\* answer and user-left-video events and of the local switches, the component
\* holds at most one connection per remote user: a table entry is an open
\* object made for that user, no two entries share an object, and every
\* object that is no longer in the table has been closed.
C13_OneLinkPerRemote ==
  \A c \in Conns :
    /\ \A u \in PeerIds :
         vc[c].peers[u] # 0 =>
           /\ vc[c].peers[u] \in 1..Len(pcs[c])
           /\ pcs[c][vc[c].peers[u]].remote = u
           /\ ~pcs[c][vc[c].peers[u]].closed
    /\ \A i \in 1..Len(pcs[c]) : i \notin Linked(c) => pcs[c][i].closed

\* C13 witness: an offer from a user arrived while the table still held the
\* link to that user; the old object is closed and the table holds the new.
C13_Witness ==
  /\ cstep.ev = "offer"
  /\ Len(pcs[Me]) = 2
  /\ pcs[Me][1].remote = cstep.uid /\ pcs[Me][1].closed /\ pcs[Me][1].st = "offered"
  /\ vc[Me].peers[cstep.uid] = 2
  /\ vc[Me].videoOn

\* C14: the step for user-left-video{userId: X} closes the connection the table
\* holds for X, if any, removes X from the peer table and from the
\* remote-stream, remote video state, remote audio state and position maps,
\* and changes no entry and no connection of any other user.
C14_UserLeftVideoRemovesOnlyThatUser ==
  [][ cstep'.ev = "user-left-video" =>
        LET X == cstep'.uid
            i == vc[Me].peers[X]
        IN  /\ i # 0 => pcs'[Me][i].closed
            /\ vc'[Me].peers[X] = 0
            /\ \A u \in PeerIds \ {X} : vc'[Me].peers[u] = vc[Me].peers[u]
            /\ Len(pcs'[Me]) = Len(pcs[Me])
            /\ \A j \in 1..Len(pcs[Me]) : j # i => pcs'[Me][j] = pcs[Me][j]
            /\ vc'[Me].remoteStreams = vc[Me].remoteStreams \ {X}
            /\ vc'[Me].remoteVideoStates = vc[Me].remoteVideoStates \ {X}
            /\ vc'[Me].remoteAudioStates = vc[Me].remoteAudioStates \ {X}
            /\ vc'[Me].videoPositions = vc[Me].videoPositions \ {X}
    ]_vars

\* C14 witness: user-left-video for a user whose connection had a remote
\* stream, while another user keeps its connection and its map entries.
C14_Witness ==
  /\ cstep.ev = "user-left-video"
  /\ \E i \in 1..Len(pcs[Me]) :
       pcs[Me][i].remote = cstep.uid /\ pcs[Me][i].closed /\ pcs[Me][i].st = "answered"
  /\ \E u \in Remotes \ {cstep.uid} :
       vc[Me].peers[u] # 0 /\ u \in vc[Me].videoPositions

\* C15: the step that turns local video off closes every connection of the
\* peer table, empties the table, stops and releases the local stream and
\* emits leave-video for the room; after it no connection object is open.
C15_VideoOffTearsDownAll ==
  [][ cstep'.ev = "video-off" =>
        /\ \A i \in Linked(Me) : pcs'[Me][i].closed
        /\ \A i \in 1..Len(pcs'[Me]) : pcs'[Me][i].closed
        /\ \A u \in PeerIds : vc'[Me].peers[u] = 0
        /\ vc'[Me].stream = "none"
        /\ cstep'.out = <<RtcMsg("leave-video", cl[Me].roomId, "", NoSdp)>>
    ]_vars

\* C15 witness: video was turned off while the table held two connections.
C15_Witness ==
  /\ cstep.ev = "video-off"
  /\ Len(pcs[Me]) = 2
  /\ pcs[Me][1].remote # pcs[Me][2].remote
  /\ pcs[Me][2].st # "new"
  /\ \A i \in 1..2 : pcs[Me][i].closed
  /\ Len(cstep.out) = 1

(***************************************************************************)
(* Properties of the video call (RtcSpec)                                  *)
(***************************************************************************)

\* Every event has been delivered, every timer has run and no getUserMedia
\* call is outstanding.
Settled ==
  \A c \in Conns :
    up[c] = <<>> /\ down[c] = <<>> /\ timers[c] = {} /\ vc[c].media = <<>>

\* Both are video participants of one room of the registry.
VideoPeers(a, b) ==
  \E r \in DOMAIN rooms : {a, b} \subseteq VideoIds(rooms[r].videoUsers)

\* C11: once everything is delivered and every timer has run, a client holds
\* a peer link to another client exactly if both are video participants of
\* the same room in the registry.
C11_LinksMatchRegistry ==
  Settled =>
    \A a \in Conns : \A b \in Conns \ {a} :
      vc[a].peers[b] # 0 <=> VideoPeers(a, b)

\* The link of a to b completed offer/answer: one object holds the answer the
\* other made to its offer, and both are open.
Negotiated(a, b) ==
  LET i == vc[a].peers[b]
      j == vc[b].peers[a]
  IN  /\ i # 0 /\ j # 0
      /\ ~pcs[a][i].closed /\ ~pcs[b][j].closed
      /\ \/ /\ pcs[a][i].st = "stable" /\ pcs[a][i].link = j
            /\ pcs[b][j].st = "answered" /\ pcs[b][j].link = i
         \/ /\ pcs[b][j].st = "stable" /\ pcs[b][j].link = i
            /\ pcs[a][i].st = "answered" /\ pcs[a][i].link = j

\* C12: in a room with two members who both turned video on (once, and did
\* not turn it off), once everything is delivered and every timer has run
\* each holds a link to the other and that link completed offer/answer.
C12_LinksConverge ==
  (/\ Settled
   /\ \A c \in Conns : vc[c].videoOn /\ vc[c].toggles = 1 /\ vc[c].stream = "live"
   /\ \E r \in DOMAIN rooms : UserIds(rooms[r].users) = Conns) =>
    \A a \in Conns : \A b \in Conns \ {a} : Negotiated(a, b)

\* C16: a client whose local video is off holds no peer link.
C16_NoLinkWhileVideoOff ==
  \A c \in Conns : ~vc[c].videoOn => \A u \in PeerIds : vc[c].peers[u] = 0

(***************************************************************************)
(* Fan-out notices (NoticeSpec)                                            *)
(***************************************************************************)

\* C21: a typing or languageChange event is delivered to every other member of
\* the room and not to the sender.
C21_NoticeToOthersOnly ==
  lastEv.ev \in {"typing", "languageChange"} =>
    /\ Len(emitted) = 1
    /\ emitted[1].ev = (IF lastEv.ev = "typing" THEN "userTyping" ELSE "languageUpdate")
    /\ emitted[1].to = JoinedNow(lastEv.roomId) \ {lastEv.c}

\* C22: audio-toggle goes to the other members of the room only, video-toggle
\* to every member of the room, the sender included when it is one; both carry
\* the sender's connection id and the flag of the event.
C22_ToggleFanOut ==
  lastEv.ev \in {"audio-toggle", "video-toggle"} =>
    /\ Len(emitted) = 1
    /\ emitted[1].ev = lastEv.ev
    /\ emitted[1].uid = lastEv.c
    /\ emitted[1].enabled = lastEv.text
    /\ emitted[1].to = IF lastEv.ev = "audio-toggle"
                         THEN JoinedNow(lastEv.roomId) \ {lastEv.c}
                         ELSE JoinedNow(lastEv.roomId)

\* A member toggles its camera while another member is in the room.
C22_Witness ==
  /\ lastEv.ev = "video-toggle"
  /\ emitted[1].to = Conns
  /\ lastEv.c \in emitted[1].to

(***************************************************************************)
(* Position updates (PositionSpec, ThrottleSpec)                           *)
(***************************************************************************)

\* C23: a position change whose userId is not a video participant of the named
\* room, or whose room does not exist, changes no room and broadcasts nothing;
\* updateVideoPosition returns false and changes nothing in that case, and
\* returns true otherwise.
C23_PositionOfNonParticipantIgnored ==
  [][ /\ ( /\ lastEv'.ev = "video-position-change"
           /\ <<rooms, emitted, lastEv>>' # <<rooms, emitted, lastEv>>
           /\ ~( /\ lastEv'.roomId \in DOMAIN rooms
                 /\ VideoHas(rooms[lastEv'.roomId].videoUsers, lastEv'.uid) ) )
         => (rooms' = rooms /\ emitted' = <<>>)
      /\ ( /\ ret'.op = "updateVideoPosition"
           /\ <<mgr, ret>>' # <<mgr, ret>> )
         => LET participant == /\ ret'.roomId \in DOMAIN mgr
                               /\ VideoHas(mgr[ret'.roomId].videoUsers, ret'.userId)
            IN  /\ ret'.value = participant
                /\ ~participant => mgr' = mgr
    ]_vars

\* Both have been asked to move a user that is not a video participant of a
\* room that exists.
C23_Witness ==
  /\ lastEv.ev = "video-position-change"
  /\ lastEv.roomId \in DOMAIN rooms
  /\ ~VideoHas(rooms[lastEv.roomId].videoUsers, lastEv.uid)
  /\ emitted = <<>>
  /\ ret.op = "updateVideoPosition"
  /\ ret.roomId \in DOMAIN mgr
  /\ ~VideoHas(mgr[ret.roomId].videoUsers, ret.userId)
  /\ ret.value = FALSE

\* C24: the last position a connection sent for a video participant is the one
\* the position handler was run with (and so stored and broadcast), once no
\* trailing execution is pending for that connection.
C24_LastPositionWins ==
  \A c \in Conns :
    ( /\ th[c].calls > 0
      /\ th[c].timers = {}
      /\ th[c].sent.roomId \in DOMAIN rooms
      /\ VideoHas(rooms[th[c].sent.roomId].videoUsers, th[c].sent.userId) )
    => th[c].ran = th[c].sent

\* C25: two consecutive executions of the position handler for one connection
\* are at least 50 ms apart, and at most one trailing execution is pending.
C25_PositionRateLimited ==
  \A c \in Conns :
    /\ Cardinality(th[c].timers) <= 1
    /\ th[c].runs >= 2 => th[c].gap >= Wait

\* A connection whose handler ran twice, the second time from the timer, and
\* that has a trailing execution pending again.
C25_Witness ==
  \E c \in Conns :
    /\ th[c].runs = 2
    /\ th[c].calls = MaxCalls
    /\ th[c].timers # {}

(***************************************************************************)
(* RoomManager (ManagerSpec)                                               *)
(***************************************************************************)

\* C28: removeUser removes the id from users and videoUsers of the room and
\* returns true exactly when users is empty afterwards, the room then being
\* deleted; it returns false when members remain or the room does not exist;
\* other rooms are unchanged.
C28_RemoveUserResult ==
  [][ ( /\ ret'.op = "removeUser"
        /\ <<mgr, ret>>' # <<mgr, ret>> )
      => LET r == ret'.roomId
             u == ret'.userId
         IN  /\ \A q \in ManagerRooms \ {r} :
                   /\ q \in DOMAIN mgr' <=> q \in DOMAIN mgr
                   /\ q \in DOMAIN mgr => mgr'[q] = mgr[q]
             /\ r \notin DOMAIN mgr => (ret'.value = FALSE /\ mgr' = mgr)
             /\ r \in DOMAIN mgr =>
                  LET left == UserIds(mgr[r].users) \ {u}
                  IN  /\ ret'.value = (left = {})
                      /\ left = {} => r \notin DOMAIN mgr'
                      /\ left # {} =>
                           /\ r \in DOMAIN mgr'
                           /\ UserIds(mgr'[r].users) = left
                           /\ VideoIds(mgr'[r].videoUsers)
                                = VideoIds(mgr[r].videoUsers) \ {u}
                           /\ mgr'[r].code = mgr[r].code
    ]_vars

\* The last member of a room was removed while another room exists.
C28_Witness ==
  /\ ret.op = "removeUser"
  /\ ret.value = TRUE
  /\ ret.roomId \notin DOMAIN mgr
  /\ DOMAIN mgr # {}

\* C29: after any sequence of calls, every id in a room's videoUsers is also in
\* that room's users.
C29_ManagerVideoUsersAreUsers ==
  \A r \in DOMAIN mgr : VideoIds(mgr[r].videoUsers) \subseteq UserIds(mgr[r].users)

(***************************************************************************)
(* Local tracks, failed acquisition, inbound offers                        *)
(***************************************************************************)

\* C26: toggling the microphone or the camera flips the enabled flag of the
\* local track and emits audio-toggle / video-toggle; it creates, closes or
\* replaces no peer connection, sets no timer and emits nothing else.
C26_TrackToggleKeepsLinks ==
  [][ cstep'.ev \in {"toggleAudio", "toggleLocalVideo"} =>
        LET notice == IF cstep'.ev = "toggleAudio" THEN "audio-toggle" ELSE "video-toggle"
            held   == vc[Me].stream # "none"
        IN  /\ pcs' = pcs
            /\ timers' = timers
            /\ vc'[Me].peers = vc[Me].peers
            /\ vc'[Me].videoOn = vc[Me].videoOn
            /\ vc'[Me].stream = vc[Me].stream
            /\ cstep'.ev = "toggleAudio" =>
                 /\ vc'[Me].audioTrack = (IF held THEN ~vc[Me].audioTrack
                                                  ELSE vc[Me].audioTrack)
                 /\ vc'[Me].videoTrack = vc[Me].videoTrack
            /\ cstep'.ev = "toggleLocalVideo" =>
                 /\ vc'[Me].videoTrack = (IF held THEN ~vc[Me].videoTrack
                                                  ELSE vc[Me].videoTrack)
                 /\ vc'[Me].audioTrack = vc[Me].audioTrack
            /\ Len(cstep'.out) = (IF held THEN 1 ELSE 0)
            /\ \A i \in 1..Len(cstep'.out) :
                 /\ cstep'.out[i].ev = notice
                 /\ cstep'.out[i].enabled = (IF notice = "audio-toggle"
                                               THEN vc'[Me].audioTrack
                                               ELSE vc'[Me].videoTrack)
    ]_vars

\* The camera was switched off while a peer connection is open.
C26_Witness ==
  /\ cstep.ev = "toggleLocalVideo"
  /\ ~vc[Me].videoTrack
  /\ Len(cstep.out) = 1
  /\ \E u \in Remotes : vc[Me].peers[u] # 0 /\ ~pcs[Me][vc[Me].peers[u]].closed

\* C27: a client whose media acquisition failed when it switched video on is
\* not a video participant of any room and holds no peer link (once nothing
\* is in flight).
C27_FailedMediaStaysOut ==
  \A c \in Conns :
    (Settled /\ vc[c].videoOn /\ vc[c].failed) =>
      /\ \A r \in DOMAIN rooms : ~VideoHas(rooms[r].videoUsers, c)
      /\ Linked(c) = {}

LearnedBy(step, X) ==
  \/ step.ev = "user-joined-video" /\ step.uid = X
  \/ step.ev = "existing-video-users" /\ \E i \in 1..Len(step.ids) : step.ids[i] = X

\* The step made a new connection object for X, put it in the table and set
\* exactly one timer for X, which sends the offer of that object.
OfferScheduled(X) ==
  LET i == vc'[Me].peers[X]
  IN  /\ i > Len(pcs[Me]) /\ i <= Len(pcs'[Me])
      /\ pcs'[Me][i] = NewPc(X)
      /\ {tm \in timers'[Me] \ timers[Me] : tm.remote = X} = {Timer("offer", i, X, 0, {})}

\* The step made no connection object and set no timer for X, and the table
\* holds for X what it held or nothing.
NothingCreated(X) ==
  /\ \A i \in (Len(pcs[Me]) + 1)..Len(pcs'[Me]) : pcs'[Me][i].remote # X
  /\ {tm \in timers'[Me] \ timers[Me] : tm.remote = X} = {}
  /\ vc'[Me].peers[X] \in {0, vc[Me].peers[X]}

\* The step recorded the video state, the audio state and the position of X.
RecordedAfter(X) ==
  /\ X \in vc'[Me].remoteVideoStates
  /\ X \in vc'[Me].remoteAudioStates
  /\ X \in vc'[Me].videoPositions

\* C31 as stated: on user-joined-video for a remote user X, or an
\* existing-video-users list holding X, the component makes an entry for X
\* that sends exactly one offer if and only if it holds a local stream; with
\* no stream it records X and creates nothing.  Violated by a list that
\* names a user the table has an entry for.
C31_LinkIffStreamHeld ==
  [][ \A X \in Remotes :
        LearnedBy(cstep', X) =>
          IF vc[Me].stream # "none" THEN OfferScheduled(X)
          ELSE NothingCreated(X) /\ RecordedAfter(X) ]_vars

\* C31 amended: user-joined-video for X makes the entry and schedules the one
\* offer if and only if a local stream is held; existing-video-users does so
\* if and only if a local stream is held and the table has no entry for X.
\* In every other case X is recorded, no link is made and no offer is set.
C31_LinkIffStreamHeldAndNoEntry ==
  [][ \A X \in Remotes :
        LearnedBy(cstep', X) =>
          IF /\ vc[Me].stream # "none"
             /\ cstep'.ev = "existing-video-users" => vc[Me].peers[X] = 0
            THEN OfferScheduled(X)
            ELSE NothingCreated(X) /\ RecordedAfter(X) ]_vars

\* A list of two users was handled with the stream held: both have a new
\* entry and an offer timer.
C31_Witness ==
  /\ cstep.ev = "existing-video-users" /\ Len(cstep.ids) = 2
  /\ vc[Me].stream = "live"
  /\ \A X \in Remotes :
       /\ vc[Me].peers[X] # 0
       /\ Timer("offer", vc[Me].peers[X], X, 0, {}) \in timers[Me]

(***************************************************************************)
(* Answers and the connection they are applied to (RtcSpec)                *)
(***************************************************************************)

\* C39: an answer is applied only to the connection that made the offer it
\* answers.  An object is "stable" once an answer was applied to it, and its
\* link is 0 when that answer was made for the offer of another object (one
\* since closed and replaced in the table).
C39_AnswerAppliedToItsOffer ==
  \A c \in Conns : \A i \in 1..Len(pcs[c]) :
    pcs[c][i].st = "stable" => pcs[c][i].link # 0

(***************************************************************************)
(* Broadcast channels and the users maps (Spec)                            *)
(***************************************************************************)

\* C37: for every room, the connected sockets that are in the room's
\* socket.io channel are exactly the ids of the room's users map.
C37_ChannelIsUsersMap ==
  \A r \in DOMAIN rooms :
    IoTo(sio, connected, r) = UserIds(rooms[r].users)

(***************************************************************************)
(* join-video (VideoSpec)                                                  *)
(***************************************************************************)

\* The entries of a videoUsers map other than that of c, in map order.
OtherVideoUsers(m, c) == SelectSeq(m, LAMBDA v : v.userId # c)

\* C34: join-video{roomId} by a member of roomId stores the sender in
\* videoUsers with the default position and changes nothing else in the
\* registry; user-joined-video goes to the other connected members and not
\* to the sender; the sender alone gets existing-video-users, a list of all
\* other video users of the room without the sender, and gets no list when
\* there is none.  join-video by a non-member changes and emits nothing.
C34_JoinVideoRegistersMembers ==
  [][ lastEv'.ev = "join-video" =>
        LET c == lastEv'.c
            r == lastEv'.roomId
        IN  IF r \in DOMAIN rooms /\ UsersHas(rooms[r].users, c)
              THEN LET others == OtherVideoUsers(rooms'[r].videoUsers, c)
                   IN  /\ DOMAIN rooms' = DOMAIN rooms
                       /\ \A q \in DOMAIN rooms \ {r} : rooms'[q] = rooms[q]
                       /\ rooms'[r].users = rooms[r].users
                       /\ rooms'[r].code = rooms[r].code
                       /\ \E i \in 1..Len(rooms'[r].videoUsers) :
                            rooms'[r].videoUsers[i] =
                              [userId |-> c, userName |-> UsersGet(rooms[r].users, c).name,
                               position |-> DefaultPosition]
                       /\ others = OtherVideoUsers(rooms[r].videoUsers, c)
                       /\ Len(rooms'[r].videoUsers) = Len(others) + 1
                       /\ Len(emitted') = (IF Len(others) > 0 THEN 2 ELSE 1)
                       /\ emitted'[1].ev = "user-joined-video"
                       /\ emitted'[1].uid = c
                       /\ emitted'[1].to =
                            {d \in UserIds(rooms[r].users) \ {c} : connected[d]}
                       /\ Len(others) > 0 =>
                            /\ emitted'[2].ev = "existing-video-users"
                            /\ emitted'[2].to = {c}
                            /\ emitted'[2].video = others
              ELSE rooms' = rooms /\ emitted' = <<>> ]_vars

\* A member has just joined the video of a room in which another member is a
\* video user: it got the list and the other member got user-joined-video.
C34_Witness ==
  /\ lastEv.ev = "join-video"
  /\ Len(emitted) = 2
  /\ emitted[1].to # {} /\ ~(lastEv.c \in emitted[1].to)
  /\ emitted[2].to = {lastEv.c} /\ Len(emitted[2].video) = 1

(***************************************************************************)
(* The forwarding handlers and the registry (RouterSpec)                   *)
(***************************************************************************)

RouterEvents == {"offer", "answer", "ice-candidate", "video-toggle", "audio-toggle",
                 "check-video-user"}

\* C35: handling offer, answer, ice-candidate, video-toggle, audio-toggle or
\* check-video-user leaves every room of the registry as it was: its users,
\* its videoUsers, its document text and its output.
C35_RouterLeavesRegistry ==
  [][ lastEv'.ev \in RouterEvents => rooms' = rooms ]_vars

\* check-video-user about a video user of a room was answered, and the room
\* still has that video user.
C35_Witness ==
  /\ lastEv.ev = "check-video-user"
  /\ Len(emitted) = 1
  /\ lastEv.roomId \in DOMAIN rooms
  /\ VideoHas(rooms[lastEv.roomId].videoUsers, emitted[1].uid)
  /\ Len(rooms[lastEv.roomId].users) = NConns

(***************************************************************************)
(* Events about a room sent by a connection outside it (DocSpec)           *)
(***************************************************************************)

IsolatedEvents == {"codeChange", "typing", "languageChange", "compileCode",
                   "leave-video", "video-position-change"}

\* C38: an event that names a room, handled for a connection that has no
\* entry in that room's users map, leaves the room as it was and emits
\* nothing that reaches a member of the room.
C38_NonMemberCannotReachRoom ==
  [][ LET c == lastEv'.c
          r == lastEv'.roomId
      IN  /\ lastEv'.ev \in IsolatedEvents
          /\ r \in DOMAIN rooms
          /\ ~UsersHas(rooms[r].users, c)
          => /\ rooms'[r] = rooms[r]
             /\ \A i \in 1..Len(emitted') :
                  emitted'[i].to \cap UserIds(rooms[r].users) = {} ]_vars

(***************************************************************************)
(* The typing indicator (IndicatorSpec)                                    *)
(***************************************************************************)

\* C36: a displayed typing notice is cleared no earlier than 2 seconds after
\* it was shown, also when an earlier notice was still displayed when it
\* arrived.
C36_NoticeShownFullExpiry ==
  [][ \A c \in Conns :
        cl[c].typing # "" /\ cl'[c].typing = "" =>
          now - cl[c].shownAt >= TypingExpiry ]_vars

(***************************************************************************)
(* Local tracks on the links of a component (PeerSpec)                     *)
(***************************************************************************)

\* C33: while a component holds a live local stream, every open connection
\* in its table carries the tracks of that stream.
C33_OpenLinksCarryLocalTracks ==
  \A c \in Conns :
    vc[c].stream = "live" =>
      \A u \in PeerIds :
        vc[c].peers[u] # 0 /\ ~pcs[c][vc[c].peers[u]].closed =>
          vc[c].peers[u] \in vc[c].senders

(***************************************************************************)
(* Recovery of a link (RecoverySpec)                                       *)
(***************************************************************************)

\* Object i of the component is one it makes the offer on.
Initiator(i) ==
  \/ pcs[Me][i].st \in {"offered", "stable"}
  \/ \E tm \in timers[Me] : tm.kind = "offer" /\ tm.obj = i

\* The step ran the timer tm and no other.
Ran(tm) == cstep'.ev = "timer" /\ tm \in timers[Me] /\ timers'[Me] = timers[Me] \ {tm}

\* The step called restartIce() on object i, or did not.
Restarted(i) == pcs'[Me][i].ice = (IF pcs[Me][i].ice < MaxRestarts
                                     THEN pcs[Me][i].ice + 1 ELSE MaxRestarts)

NotRestarted(i) == pcs'[Me][i].ice = pcs[Me][i].ice

\* When a connection reports "failed", ICE is restarted at once and nothing is
\* sent; when it reports "disconnected", nothing is done at once.
ReportHandled ==
  \A u \in Remotes :
    LET i == vc[Me].peers[u]
    IN  cstep'.ev = "connectionstatechange" /\ cstep'.uid = u =>
          /\ cstep'.out = <<>>
          /\ pcs'[Me][i].cs = "failed" => Restarted(i)
          /\ pcs'[Me][i].cs # "failed" => NotRestarted(i)

\* The timer set on "disconnected" restarts ICE if and only if the connection
\* is still disconnected, and sends nothing.
DisconnectedHandled ==
  \A tm \in timers[Me] :
    Ran(tm) /\ tm.kind = "disconnected" =>
      /\ cstep'.out = <<>>
      /\ IF ~pcs[Me][tm.obj].closed /\ pcs[Me][tm.obj].cs = "disconnected"
           THEN Restarted(tm.obj) ELSE NotRestarted(tm.obj)

\* The timer set on "failed", when the connection is still failed and a local
\* stream is held, puts the local tracks on it and, on a connection of the
\* initiator, sends a new offer to the remote user.
FailedHandled ==
  \A tm \in timers[Me] :
    /\ Ran(tm) /\ tm.kind = "failed"
    /\ ~pcs[Me][tm.obj].closed /\ pcs[Me][tm.obj].cs = "failed"
    /\ vc[Me].stream # "none"
    => /\ tm.obj \in vc'[Me].senders
       /\ Initiator(tm.obj) =>
            \E n \in 1..Len(cstep'.out) :
              cstep'.out[n].ev = "offer" /\ cstep'.out[n].text = tm.remote

\* C32: a connection that reports "failed" gets an ICE restart first and, if
\* it is still failed when the timer runs, the local tracks and (on the
\* initiator's side) a new offer; one that reports "disconnected" gets an ICE
\* restart when its timer runs, only if it is still disconnected.
C32_LinkRecovery ==
  [][ ReportHandled /\ DisconnectedHandled /\ FailedHandled ]_vars

====
